---- MODULE Spec2Model ----
(***************************************************************************)
(* The RTMP session engine of egg-media-server: the broker registries      *)
(* (sessions, publishers, idlePlayers), the per-session command handlers   *)
(* and the media fan-out, at the granularity of one dispatched RTMP        *)
(* message (or one socket event) per step.                                 *)
(*                                                                         *)
(* A handler is a function from worlds to worlds.  A world is the record   *)
(* of everything a handler can touch; the field "thrown" is the JavaScript *)
(* exception state: once a TypeError is raised the rest of the handler,    *)
(* and of every caller up to the socket event, is skipped, and what was    *)
(* assigned before the throw stays assigned (the process survives through  *)
(* the uncaughtException listener of NodeMediaServer.run).                 *)
(***************************************************************************)
EXTENDS Integers, Sequences, FiniteSets, TLC

\* ------------------------------------------------------------- bounds
MaxSessions == 2
MaxEvents == 3
MaxStreamId == 1

Ids == 1..MaxSessions
StreamIds == 0..MaxStreamId
Apps == {"live"}
\* The application names connect commands carry (jwplayer sends a leading slash).
ConnectApps == {"live", "/live"}
Names == {"a", "b"}
NotAString == "<not-a-string>"

\* ------------------------------------------------------------ helpers
Range(q) == {q[i] : i \in 1..Len(q)}

\* A JavaScript Set iterates in insertion order: a sequence without repeats.
SetAdd(q, x) == IF x \in Range(q) THEN q ELSE Append(q, x)
SetDelete(q, x) == SelectSeq(q, LAMBDA y : y # x)

\* A JavaScript Map from stream path to session id.
MapHas(m, k) == k \in DOMAIN m
MapSet(m, k, v) == [x \in (DOMAIN m) \cup {k} |-> IF x = k THEN v ELSE m[x]]
MapDelete(m, k) == [x \in (DOMAIN m) \ {k} |-> m[x]]
EmptyMap == [x \in {} |-> 0]

StreamPath(app, name) == "/" \o app \o "/" \o name
Paths == {StreamPath(a, n) : a \in Apps \cup {""}, n \in Names}

\* ------------------------------------------------------- media frames
NoFrame == [k |-> "none", codec |-> 0, ft |-> 0, b1 |-> 0]
AudioFrame(codec, b1) == [k |-> "audio", codec |-> codec, ft |-> 0, b1 |-> b1]
VideoFrame(codec, ft, b1) == [k |-> "video", codec |-> codec, ft |-> ft, b1 |-> b1]
MetaFrame == [k |-> "meta", codec |-> 0, ft |-> 0, b1 |-> 0]

AacSeqHeader == AudioFrame(10, 0)
AacRaw == AudioFrame(10, 1)
Mp3Frame == AudioFrame(2, 1)
AvcSeqHeader == VideoFrame(7, 1, 0)
AvcIdr == VideoFrame(7, 1, 1)
AvcInter == VideoFrame(7, 2, 1)
H263Key == VideoFrame(2, 1, 0)

AudioFrames == {AacSeqHeader, AacRaw, Mp3Frame}
VideoFrames == {AvcSeqHeader, AvcIdr, AvcInter, H263Key}

\* ------------------------------------------- what is written to sockets
Msg(t, sid, lvl, code, f) ==
  [t |-> t, sid |-> sid, lvl |-> lvl, code |-> code, f |-> f, arg |-> << >>]
StatusMsg(sid, level, code) == Msg("onStatus", sid, level, code, NoFrame)
StreamStatusMsg(st, sid) == Msg("streamStatus", sid, "", st, NoFrame)
MediaMsg(sid, f) == Msg(f.k, sid, "", "", f)
\* A protocol control message on chunk stream 2 and the values in its payload.
ControlMsg(code, arg) == [Msg("control", 0, "", code, NoFrame) EXCEPT !.arg = arg]
ResultMsg(code) == Msg("_result", 0, "status", code, NoFrame)
SampleAccessMsg == Msg("|RtmpSampleAccess", 0, "", "", NoFrame)

Event(name, id, path) == [name |-> name, id |-> id, path |-> path]

\* ----------------------------------------------------------- sessions
NewSession(local) ==
  [ isLocal |-> local,
    isStarting |-> TRUE,
    isPublishing |-> FALSE,
    isPlaying |-> FALSE,
    isIdling |-> FALSE,
    isPause |-> FALSE,
    isFirstAudioReceived |-> FALSE,
    isFirstVideoReceived |-> FALSE,
    isReceiveAudio |-> TRUE,
    isReceiveVideo |-> TRUE,
    metaData |-> NoFrame,
    aacSequenceHeader |-> NoFrame,
    avcSequenceHeader |-> NoFrame,
    audioCodec |-> 0,
    videoCodec |-> 0,
    gopCacheNull |-> TRUE,
    rtmpGopCacheQueue |-> << >>,
    appname |-> "",
    streams |-> 0,
    playStreamId |-> 0,
    playStreamPath |-> "",
    publishStreamId |-> 0,
    publishStreamPath |-> "",
    players |-> << >>,
    pingInterval |-> FALSE ]

VARIABLES
  config,       \* the configuration the server was constructed with
  listening,    \* the TCP listener accepts connections
  nextId,       \* the next session id generateNewSessionID hands out
  sess,         \* the session objects, by id
  sock,         \* each session's socket: "none", "open", "destroyed", "closed"
  sessions,     \* context.sessions (its keys)
  publishers,   \* context.publishers: stream path -> session id
  idlePlayers,  \* context.idlePlayers, in insertion order
  pings,        \* per session, the interval timers that are running
  events,       \* the events emitted by the last step, in order
  out,          \* per session, what the last step wrote to its socket, in order
  thrown,       \* the last step ended in an uncaught exception
  stopCalls,    \* per session, calls of stop() so far (counted up to 2)
  handled,      \* socket events (data, close, error, timeout) handled so far
  posts,        \* per session, the postPublish timeouts that are pending
  verifiedPlay, \* per session, the stream paths verifyAuth accepted a play for
  codec,        \* a packet, the chunks built from it, and the parser that reads them
  budget        \* the number of socket events the run handles

vars == << config, listening, nextId, sess, sock, sessions, publishers, idlePlayers,
           pings, events, out, thrown, stopCalls, handled, posts, verifiedPlay,
           codec, budget >>


\* The configurations the embedder may construct the server with:
\* the default one, one without GOP cache, one with authentication.
\* chunk_size 0 stands for a configuration that does not set it.
DefaultConfig ==
  [authPublish |-> FALSE, authPlay |-> FALSE, gop_cache |-> TRUE, chunk_size |-> 60000]

Configs ==
  { DefaultConfig,
    [authPublish |-> FALSE, authPlay |-> FALSE, gop_cache |-> FALSE, chunk_size |-> 0],
    [authPublish |-> TRUE, authPlay |-> TRUE, gop_cache |-> TRUE, chunk_size |-> 60000] }

RTMP_CHUNK_SIZE == 128

\* this.inChunkSize, set by the constructor
inChunkSize(cfg) == RTMP_CHUNK_SIZE

\* this.outChunkSize, set by the constructor
outChunkSize(cfg) == IF cfg.chunk_size # 0 THEN cfg.chunk_size ELSE RTMP_CHUNK_SIZE

\* ------------------------------------------------------------- worlds
World ==
  [ config |-> config, sess |-> sess, sock |-> sock, sessions |-> sessions,
    publishers |-> publishers, idlePlayers |-> idlePlayers, pings |-> pings,
    stopCalls |-> stopCalls, posts |-> posts, verifiedPlay |-> verifiedPlay,
    events |-> << >>, out |-> [i \in Ids |-> << >>], thrown |-> FALSE ]

Throw(w) == [w EXCEPT !.thrown = TRUE]
SocketWrite(w, s, m) == [w EXCEPT !.out[s] = Append(@, m)]
Emit(w, name, s, path) == [w EXCEPT !.events = Append(@, Event(name, s, path))]

sendStatusMessage(w, s, sid, level, code) == SocketWrite(w, s, StatusMsg(sid, level, code))
sendStreamStatus(w, s, st, id) == SocketWrite(w, s, StreamStatusMsg(st, id))

\* Write the frames q[i..] to s's socket, each patched to stream id sid.
RECURSIVE WriteAll(_, _, _, _, _)
WriteAll(w, s, sid, q, i) ==
  IF i > Len(q) THEN w
  ELSE WriteAll(SocketWrite(w, s, MediaMsg(sid, q[i])), s, sid, q, i + 1)

\* An uncaught exception ends the handler: what follows runs only when none was thrown.
AndThen(w, F(_)) == IF w.thrown THEN w ELSE F(w)

\* ------------------------------------------------------- onStartPlay
onStartPlay(w, s) ==
  LET me == w.sess[s]
      path == me.playStreamPath
      publisherId == IF MapHas(w.publishers, path) THEN w.publishers[path] ELSE 0
      pub == w.sess[publisherId]
      w1 == [w EXCEPT !.sess[publisherId].players = SetAdd(@, s)]
      w2 == AndThen(w1, LAMBDA x :
              IF pub.metaData # NoFrame
              THEN SocketWrite(x, s, MediaMsg(me.playStreamId, pub.metaData))
              ELSE x)
      w3 == AndThen(w2, LAMBDA x :
              IF pub.audioCodec = 10
              THEN IF pub.aacSequenceHeader = NoFrame
                   THEN Throw(x)                    \* packet.payload.length of null
                   ELSE SocketWrite(x, s, MediaMsg(me.playStreamId, pub.aacSequenceHeader))
              ELSE x)
      w4 == AndThen(w3, LAMBDA x :
              IF pub.videoCodec = 7 \/ pub.videoCodec = 12
              THEN IF pub.avcSequenceHeader = NoFrame
                   THEN Throw(x)
                   ELSE SocketWrite(x, s, MediaMsg(me.playStreamId, pub.avcSequenceHeader))
              ELSE x)
      w5 == AndThen(w4, LAMBDA x :
              IF ~pub.gopCacheNull
              THEN WriteAll(x, s, me.playStreamId, pub.rtmpGopCacheQueue, 1)
              ELSE x)
  IN
  IF publisherId \notin w.sessions THEN Throw(w)   \* publisher.players of undefined
  ELSE AndThen(w5, LAMBDA x :
         Emit([x EXCEPT !.sess[s].isIdling = FALSE, !.sess[s].isPlaying = TRUE],
              "postPlay", s, path))

\* ---------------------------------------------------- onDeleteStream
\* for (const playerId of this.players) player.sendStatusMessage(UnpublishNotify)
RECURSIVE NotifyPlayers(_, _, _)
NotifyPlayers(w, q, i) ==
  IF i > Len(q) THEN w
  ELSE IF q[i] \notin w.sessions THEN Throw(w)      \* player.stop of undefined
  ELSE NotifyPlayers(
         sendStatusMessage(w, q[i], w.sess[q[i]].playStreamId, "status",
                           "NetStream.Play.UnpublishNotify"),
         q, i + 1)

\* for (const playerId of this.players) move the player to idlePlayers
RECURSIVE IdlePlayers(_, _, _)
IdlePlayers(w, q, i) ==
  IF i > Len(q) THEN w
  ELSE
    LET p == q[i]
        w1 == [w EXCEPT !.idlePlayers = SetAdd(@, p)]
    IN
    IF p \notin w.sessions THEN Throw(w1)           \* player.isPlaying of undefined
    ELSE IdlePlayers(
           sendStreamStatus(
             [w1 EXCEPT !.sess[p].isPlaying = FALSE, !.sess[p].isIdling = TRUE],
             p, "StreamEOF", w.sess[p].playStreamId),
           q, i + 1)

DeletePlayStream(w, s) ==
  LET me == w.sess[s]
      path == me.playStreamPath
      publisherId == IF MapHas(w.publishers, path) THEN w.publishers[path] ELSE 0
      w1 == IF me.isIdling
            THEN [w EXCEPT !.idlePlayers = SetDelete(@, s), !.sess[s].isIdling = FALSE]
            ELSE IF publisherId \notin w.sessions
            THEN Throw(w)                           \* sessions.get(...).players of undefined
            ELSE Emit([w EXCEPT !.sess[publisherId].players = SetDelete(@, s),
                                !.sess[s].isPlaying = FALSE],
                      "donePlay", s, path)
      w2 == AndThen(w1, LAMBDA x :
              IF me.isStarting
              THEN sendStatusMessage(x, s, me.playStreamId, "status", "NetStream.Play.Stop")
              ELSE x)
  IN
  AndThen(w2, LAMBDA x : [x EXCEPT !.sess[s].playStreamId = 0, !.sess[s].playStreamPath = ""])

DeletePublishStream(w, s) ==
  LET me == w.sess[s]
      path == me.publishStreamPath
      w1 == Emit(w, "donePublish", s, path)
      w2 == AndThen(w1, LAMBDA x :
              IF me.isStarting
              THEN sendStatusMessage(x, s, me.publishStreamId, "status",
                                     "NetStream.Unpublish.Success")
              ELSE x)
      w3 == AndThen(w2, LAMBDA x : NotifyPlayers(x, me.players, 1))
      w4 == AndThen(w3, LAMBDA x : IdlePlayers(x, me.players, 1))
      w5 == AndThen(w4, LAMBDA x :
              [x EXCEPT !.publishers = MapDelete(@, path),
                        !.sess[s].rtmpGopCacheQueue = << >>,
                        !.sess[s].players = << >>,
                        !.sess[s].isPublishing = FALSE])
  IN
  AndThen(IF me.isPublishing THEN w5 ELSE w,
          LAMBDA x : [x EXCEPT !.sess[s].publishStreamId = 0, !.sess[s].publishStreamPath = ""])

onDeleteStream(w, s, streamId) ==
  AndThen(IF streamId = w.sess[s].playStreamId THEN DeletePlayStream(w, s) ELSE w,
          LAMBDA x : IF streamId = x.sess[s].publishStreamId
                     THEN DeletePublishStream(x, s)
                     ELSE x)

\* --------------------------------------------------------------- stop
AlwaysStarting(w, s) == TRUE

\* if (this.isStarting)
IsStarting(w, s) == w.sess[s].isStarting

stop(w, s) ==
  LET w0 == [w EXCEPT !.stopCalls[s] = IF @ < 2 THEN @ + 1 ELSE @]
      w1 == [w0 EXCEPT !.sess[s].isStarting = FALSE]
      w2 == AndThen(w1, LAMBDA x :
              IF x.sess[s].playStreamId > 0
              THEN onDeleteStream(x, s, x.sess[s].playStreamId)
              ELSE x)
      w3 == AndThen(w2, LAMBDA x :
              IF x.sess[s].publishStreamId > 0
              THEN onDeleteStream(x, s, x.sess[s].publishStreamId)
              ELSE x)
      w4 == AndThen(w3, LAMBDA x :
              IF x.sess[s].pingInterval
              THEN [x EXCEPT !.pings[s] = @ - 1, !.sess[s].pingInterval = FALSE]
              ELSE x)
  IN
  IF ~IsStarting(w, s) THEN w0
  ELSE AndThen(w4, LAMBDA x :
         [Emit(x, "doneConnect", s, "") EXCEPT
            !.sessions = @ \ {s},
            !.sock[s] = IF @ = "open" THEN "destroyed" ELSE @])


\* ---------------------------------------------------------- onConnect
\* app.replace('/', '') on the application names a connect command carries
ReplaceFirstSlash(app) == IF app = "/live" THEN "live" ELSE app

onConnect(w, s, app, rejected) ==
  LET w1 == Emit(w, "preConnect", s, "")
      w2 == IF rejected THEN stop(w1, s) ELSE w1   \* a preConnect listener calls reject()
      Respond(x) ==
        LET x1 == [x EXCEPT !.sess[s].appname = ReplaceFirstSlash(app),
                            !.sess[s].pingInterval = TRUE,
                            !.pings[s] = @ + 1]
            x2 == SocketWrite(x1, s, ControlMsg("WindowAckSize", << 5000000 >>))
            x3 == SocketWrite(x2, s, ControlMsg("SetPeerBandwidth", << 5000000, 2 >>))
            x4 == SocketWrite(x3, s, ControlMsg("SetChunkSize", << outChunkSize(x.config) >>))
            x5 == SocketWrite(x4, s, ResultMsg("NetConnection.Connect.Success"))
        IN Emit(x5, "postConnect", s, "")
  IN
  AndThen(w2, LAMBDA x : IF ~x.sess[s].isStarting THEN x ELSE Respond(x))

\* ----------------------------------------------------- onCreateStream
onCreateStream(w, s) ==
  SocketWrite([w EXCEPT !.sess[s].streams = @ + 1], s, ResultMsg("createStream"))

\* ---------------------------------------------------------- onPublish
\* for (const idlePlayerId of context.idlePlayers) ...
RECURSIVE StartIdlePlayers(_, _, _, _)
StartIdlePlayers(w, path, q, i) ==
  IF i > Len(q) THEN w
  ELSE IF q[i] \notin w.sessions THEN Throw(w)      \* idlePlayer.playStreamPath of undefined
  ELSE IF w.sess[q[i]].playStreamPath = path
  THEN AndThen(onStartPlay(w, q[i]), LAMBDA x :
         StartIdlePlayers([x EXCEPT !.idlePlayers = SetDelete(@, q[i])], path, q, i + 1))
  ELSE StartIdlePlayers(w, path, q, i + 1)

ConnectionOnlyVerdict(w, s, path) ==
  IF w.sess[s].isPublishing THEN "BadConnection" ELSE "Start"

\* if (context.publishers.has(path)) ... else if (this.isPublishing) ... else ...
PublishVerdict(w, s, path) ==
  IF MapHas(w.publishers, path) THEN "BadName"
  ELSE IF w.sess[s].isPublishing THEN "BadConnection"
  ELSE "Start"

onPublish(w, s, streamName, streamId, rejected, authOk) ==
  LET path == StreamPath(w.sess[s].appname, streamName)
      w1 == [w EXCEPT !.sess[s].publishStreamPath = path,
                      !.sess[s].publishStreamId = streamId]
      w2 == Emit(w1, "prePublish", s, path)
      w3 == IF rejected THEN stop(w2, s) ELSE w2   \* a prePublish listener calls reject()
      Start(x) ==
        AndThen(
          StartIdlePlayers(
            sendStatusMessage(
              [x EXCEPT !.publishers = MapSet(@, path, s), !.sess[s].isPublishing = TRUE],
              s, streamId, "status", "NetStream.Publish.Start"),
            path, x.idlePlayers, 1),
          LAMBDA y : [y EXCEPT !.posts[s] = @ + 1])      \* setTimeout(..., 200)
      Decide(x) ==
        IF ~x.sess[s].isStarting THEN x
        ELSE IF x.config.authPublish /\ ~x.sess[s].isLocal /\ ~authOk
        THEN sendStatusMessage(x, s, streamId, "error", "NetStream.publish.Unauthorized")
        ELSE IF PublishVerdict(x, s, path) = "BadName"
        THEN sendStatusMessage(x, s, streamId, "error", "NetStream.Publish.BadName")
        ELSE IF PublishVerdict(x, s, path) = "BadConnection"
        THEN sendStatusMessage(x, s, streamId, "error", "NetStream.Publish.BadConnection")
        ELSE Start(x)
  IN
  IF streamName = NotAString THEN w ELSE AndThen(w3, Decide)

\* ------------------------------------------------------------- onPlay
\* A response to play that announces the start before the reset.
respondPlayStartFirst(w, s) ==
  LET sid == w.sess[s].playStreamId
      w1 == sendStreamStatus(w, s, "StreamBegin", sid)
      w2 == sendStatusMessage(w1, s, sid, "status", "NetStream.Play.Start")
      w3 == sendStatusMessage(w2, s, sid, "status", "NetStream.Play.Reset")
  IN SocketWrite(w3, s, SampleAccessMsg)

respondPlay(w, s) ==
  LET sid == w.sess[s].playStreamId
      w1 == sendStreamStatus(w, s, "StreamBegin", sid)
      w2 == sendStatusMessage(w1, s, sid, "status", "NetStream.Play.Reset")
      w3 == sendStatusMessage(w2, s, sid, "status", "NetStream.Play.Start")
  IN SocketWrite(w3, s, SampleAccessMsg)

onPlay(w, s, streamName, streamId, rejected, authOk) ==
  LET path == StreamPath(w.sess[s].appname, streamName)
      w1 == [w EXCEPT !.sess[s].playStreamPath = path,
                      !.sess[s].playStreamId = streamId]
      w2 == Emit(w1, "prePlay", s, path)
      w3 == IF rejected THEN stop(w2, s) ELSE w2   \* a prePlay listener calls reject()
      Respond(x) ==
        IF x.sess[s].isPlaying
        THEN sendStatusMessage(x, s, streamId, "error", "NetStream.Play.BadConnection")
        ELSE respondPlay(x, s)
      Start(x) ==
        IF MapHas(x.publishers, path)
        THEN onStartPlay(x, s)
        ELSE [x EXCEPT !.sess[s].isIdling = TRUE, !.idlePlayers = SetAdd(@, s)]
      Verified(x) ==                     \* verifyAuth was called and returned true
        IF x.config.authPlay /\ ~x.sess[s].isLocal
        THEN [x EXCEPT !.verifiedPlay[s] = @ \cup {path}]
        ELSE x
      Decide(x) ==
        IF ~x.sess[s].isStarting THEN x
        ELSE IF x.config.authPlay /\ ~x.sess[s].isLocal /\ ~authOk
        THEN sendStatusMessage(x, s, streamId, "error", "NetStream.play.Unauthorized")
        ELSE AndThen(Respond(Verified(x)), Start)
  IN
  IF streamName = NotAString THEN w ELSE AndThen(w3, Decide)



\* ------------------------------------------------------ media handlers
\* A fan-out that does not read the player's pause flag.
RECURSIVE FanOutToPaused(_, _, _, _, _)
FanOutToPaused(w, q, i, f, gate) ==
  IF i > Len(q) THEN w
  ELSE
    LET p == q[i]
        ps == w.sess[p]
        open == /\ p \in w.sessions
                /\ ps.isStarting /\ ps.isPlaying
                /\ \/ gate = "none"
                   \/ gate = "audio" /\ ps.isReceiveAudio
                   \/ gate = "video" /\ ps.isReceiveVideo
    IN FanOutToPaused(IF open THEN SocketWrite(w, p, MediaMsg(ps.playStreamId, f)) ELSE w,
                      q, i + 1, f, gate)

\* for (const playerId of this.players) ... socket.write(rtmpChunks)
RECURSIVE FanOut(_, _, _, _, _)
FanOut(w, q, i, f, gate) ==
  IF i > Len(q) THEN w
  ELSE
    LET p == q[i]
        ps == w.sess[p]
        open == /\ p \in w.sessions
                /\ ps.isStarting /\ ps.isPlaying /\ ~ps.isPause
                /\ \/ gate = "none"
                   \/ gate = "audio" /\ ps.isReceiveAudio
                   \/ gate = "video" /\ ps.isReceiveVideo
    IN FanOut(IF open THEN SocketWrite(w, p, MediaMsg(ps.playStreamId, f)) ELSE w,
              q, i + 1, f, gate)

rtmpAudioHandler(w, s, f) ==
  LET me == w.sess[s]
      w1 == IF me.isFirstAudioReceived THEN w
            ELSE IF f.codec = 10
            THEN IF f.b1 = 0
                 THEN [w EXCEPT !.sess[s].audioCodec = f.codec,
                                !.sess[s].isFirstAudioReceived = TRUE,
                                !.sess[s].aacSequenceHeader = f]
                 ELSE [w EXCEPT !.sess[s].audioCodec = f.codec]
            ELSE [w EXCEPT !.sess[s].audioCodec = f.codec,
                           !.sess[s].isFirstAudioReceived = TRUE]
      me1 == w1.sess[s]
      w2 == IF me1.gopCacheNull THEN w1
            ELSE IF me1.aacSequenceHeader # NoFrame /\ f.b1 = 0 THEN w1
            ELSE [w1 EXCEPT !.sess[s].rtmpGopCacheQueue = Append(@, f)]
  IN FanOut(w2, me1.players, 1, f, "audio")

\* The GOP cache after a video frame of codec 7 or 12 - with the clear() of a new
\* IDR left out.
cacheGopKeepingIdr(queue, f) ==
  IF f.ft = 1 /\ f.b1 = 0 THEN queue ELSE Append(queue, f)

\* The GOP cache after a video frame of codec 7 or 12: a key frame whose byte 1 is 1
\* clears it, and every frame but a sequence header is added.
cacheGop(queue, f) ==
  LET cleared == IF f.ft = 1 /\ f.b1 = 1 THEN << >> ELSE queue
  IN IF f.ft = 1 /\ f.b1 = 0 THEN cleared ELSE Append(cleared, f)

rtmpVideoHandler(w, s, f) ==
  LET me == w.sess[s]
      avc == f.codec = 7 \/ f.codec = 12
      w1 == IF me.isFirstVideoReceived THEN w
            ELSE IF avc
            THEN IF f.ft = 1 /\ f.b1 = 0
                 THEN [w EXCEPT !.sess[s].videoCodec = f.codec,
                                !.sess[s].isFirstVideoReceived = TRUE,
                                !.sess[s].avcSequenceHeader = f,
                                !.sess[s].gopCacheNull = ~w.config.gop_cache,
                                !.sess[s].rtmpGopCacheQueue = << >>]
                 ELSE [w EXCEPT !.sess[s].videoCodec = f.codec]
            ELSE [w EXCEPT !.sess[s].videoCodec = f.codec,
                           !.sess[s].isFirstVideoReceived = TRUE]
      me1 == w1.sess[s]
      w2 == IF avc /\ ~me1.gopCacheNull
            THEN [w1 EXCEPT !.sess[s].rtmpGopCacheQueue = cacheGop(@, f)]
            ELSE w1
  IN FanOut(w2, me1.players, 1, f, "video")

rtmpDataHandler(w, s, cmd) ==
  IF cmd = "@setDataFrame"
  THEN FanOut([w EXCEPT !.sess[s].metaData = MetaFrame], w.sess[s].players, 1, MetaFrame, "none")
  ELSE w

\* rtmpInvokeHandler with a default branch that stops the session.
rtmpInvokeHandlerStopping(w, s, cmd) ==
  IF cmd \in {"releaseStream", "FCPublish", "FCUnpublish"} THEN w ELSE stop(w, s)

\* rtmpInvokeHandler for the command names that have no handler: releaseStream,
\* FCPublish and FCUnpublish break, every other name falls to the default branch,
\* which logs. The names with a handler are the actions Connect .. ReceiveVideo.
rtmpInvokeHandler(w, s, cmd) ==
  IF cmd \in {"releaseStream", "FCPublish", "FCUnpublish"} THEN w ELSE w

\* ------------------------------------------------------------ onPause
\* The status message of onPause: sendStatusMessage(this.playStreamId, c, d) passes
\* c in the place of level and d in the place of code.
onPause(w, s, pause) ==
  LET me == w.sess[s]
      sid == me.playStreamId
      path == me.playStreamPath
      c == IF pause THEN "NetStream.Pause.Notify" ELSE "NetStream.Unpause.Notify"
      d == IF pause THEN "Paused live" ELSE "Unpaused live"
      publisherId == IF MapHas(w.publishers, path) THEN w.publishers[path] ELSE 0
      pub == w.sess[publisherId]
      AudioHeader(x) ==
        IF pub.audioCodec = 10
        THEN IF pub.aacSequenceHeader = NoFrame
             THEN Throw(x)                          \* packet.payload.length of null
             ELSE SocketWrite(x, s, MediaMsg(sid, pub.aacSequenceHeader))
        ELSE x
      VideoHeader(x) ==
        IF pub.videoCodec = 7 \/ pub.videoCodec = 12
        THEN IF pub.avcSequenceHeader = NoFrame
             THEN Throw(x)
             ELSE SocketWrite(x, s, MediaMsg(sid, pub.avcSequenceHeader))
        ELSE x
      Resume(x) ==
        IF ~MapHas(x.publishers, path) THEN x
        ELSE IF publisherId \notin x.sessions
        THEN Throw(x)                               \* publisher.audioCodec of undefined
        ELSE AndThen(AudioHeader(x), VideoHeader)
      Marked(x) ==
        IF pause
        THEN sendStreamStatus(x, s, "StreamEOF", sid)
        ELSE Resume(sendStreamStatus(x, s, "StreamBegin", sid))
  IN
  AndThen(Marked([w EXCEPT !.sess[s].isPause = pause]),
          LAMBDA x : sendStatusMessage(x, s, sid, c, d))

onReceiveAudio(w, s, bool) == [w EXCEPT !.sess[s].isReceiveAudio = bool]

onReceiveVideo(w, s, bool) == [w EXCEPT !.sess[s].isReceiveVideo = bool]

\* ------------------------------------------------------------- timers
PingRequestMsg == Msg("control", 0, "", "PingRequest", NoFrame)

\* The callback of setInterval(..., pingTime).
sendPingRequest(w, s) == SocketWrite(w, s, PingRequestMsg)

\* The callback of setTimeout(..., 200) that onPublish sets.
postPublishTimeout(w, s) ==
  Emit([w EXCEPT !.posts[s] = @ - 1], "postPublish", s, w.sess[s].publishStreamPath)

\* -------------------------------------------------------------- steps
\* A listener on context.nodeEvent that counts, per session, the postPlay events
\* not yet followed by a donePlay, and notes a donePlay that follows none and a
\* doneConnect that finds one open. Only a run that starts with such a listener
\* (codec has the field plays) has one.
NewListener ==
  [ sent |-> FALSE, plays |-> [i \in Ids |-> 0], orphan |-> FALSE, unclosed |-> FALSE ]

Listens(c) == "plays" \in DOMAIN c

RECURSIVE Listen(_, _, _)
Listen(c, evs, i) ==
  IF i > Len(evs) THEN c
  ELSE LET e == evs[i]
           c1 == CASE e.name = "postPlay" -> [c EXCEPT !.plays[e.id] = IF @ < 2 THEN @ + 1 ELSE @]
                   [] e.name = "donePlay" ->
                        IF c.plays[e.id] = 0 THEN [c EXCEPT !.orphan = TRUE]
                        ELSE [c EXCEPT !.plays[e.id] = @ - 1]
                   [] e.name = "doneConnect" ->
                        IF c.plays[e.id] > 0 THEN [c EXCEPT !.unclosed = TRUE] ELSE c
                   [] OTHER -> c
       IN Listen(c1, evs, i + 1)

Commit(w) ==
  /\ sess' = w.sess
  /\ sock' = w.sock
  /\ sessions' = w.sessions
  /\ publishers' = w.publishers
  /\ idlePlayers' = w.idlePlayers
  /\ pings' = w.pings
  /\ stopCalls' = w.stopCalls
  /\ posts' = w.posts
  /\ verifiedPlay' = w.verifiedPlay
  /\ codec' = IF Listens(codec) THEN Listen(codec, w.events, 1) ELSE codec
  /\ events' = w.events
  /\ out' = w.out
  /\ thrown' = w.thrown

\* One more socket event is handled.
Handles ==
  /\ handled < budget
  /\ handled' = handled + 1
  /\ UNCHANGED << config, listening, nextId, budget >>

\* A data event that carries one complete message for session s.
Receives(s) ==
  /\ sock[s] = "open"
  /\ Handles

\* No packet is being chunked.
NoChunks == [sent |-> FALSE]

\* The state after the server is constructed and run() has bound the listener.
Started ==
  /\ listening = TRUE
  /\ nextId = 1
  /\ sess = [i \in Ids |-> NewSession(FALSE)]
  /\ sock = [i \in Ids |-> "none"]
  /\ sessions = {}
  /\ publishers = EmptyMap
  /\ idlePlayers = << >>
  /\ pings = [i \in Ids |-> 0]
  /\ stopCalls = [i \in Ids |-> 0]
  /\ events = << >>
  /\ out = [i \in Ids |-> << >>]
  /\ thrown = FALSE
  /\ handled = 0
  /\ posts = [i \in Ids |-> 0]
  /\ verifiedPlay = [i \in Ids |-> {}]

Init ==
  /\ config \in Configs
  /\ budget = MaxEvents
  /\ Started
  /\ codec = NoChunks

\* Net.createServer callback: new NodeRtmpSession(config, socket); session.run()
Accept(local) ==
  /\ listening
  /\ nextId <= MaxSessions
  /\ Commit([World EXCEPT !.sess[nextId] = NewSession(local),
                          !.sock[nextId] = "open",
                          !.sessions = @ \cup {nextId}])
  /\ nextId' = nextId + 1
  /\ UNCHANGED << config, listening, handled, budget >>

Connect(s, app, rejected) ==
  /\ Receives(s)
  /\ Commit(onConnect(World, s, app, rejected))

CreateStream(s) ==
  /\ Receives(s)
  /\ sess[s].streams < MaxStreamId
  /\ Commit(onCreateStream(World, s))

Publish(s, streamName, streamId, rejected, authOk) ==
  /\ Receives(s)
  /\ Commit(onPublish(World, s, streamName, streamId, rejected, authOk))

Play(s, streamName, streamId, rejected, authOk) ==
  /\ Receives(s)
  /\ Commit(onPlay(World, s, streamName, streamId, rejected, authOk))

DeleteStream(s, streamId) ==
  /\ Receives(s)
  /\ Commit(onDeleteStream(World, s, streamId))

CloseStream(s, streamId) ==
  /\ Receives(s)
  /\ Commit(onDeleteStream(World, s, streamId))

Audio(s, f) ==
  /\ Receives(s)
  /\ Commit(rtmpAudioHandler(World, s, f))

Video(s, f) ==
  /\ Receives(s)
  /\ Commit(rtmpVideoHandler(World, s, f))

Data(s, cmd) ==
  /\ Receives(s)
  /\ Commit(rtmpDataHandler(World, s, cmd))

\* The command names rtmpInvokeHandler has no handler for: three it names, one
\* that decodeAMF0Cmd knows a schema for, one that nothing knows.
UnhandledCommands == {"releaseStream", "FCPublish", "FCUnpublish", "seek", "bogus"}

Invoke(s, cmd) ==
  /\ Receives(s)
  /\ Commit(rtmpInvokeHandler(World, s, cmd))

Pause(s, pause) ==
  /\ Receives(s)
  /\ Commit(onPause(World, s, pause))

ReceiveAudio(s, bool) ==
  /\ Receives(s)
  /\ Commit(onReceiveAudio(World, s, bool))

ReceiveVideo(s, bool) ==
  /\ Receives(s)
  /\ Commit(onReceiveVideo(World, s, bool))

\* The peer closed the connection, or the socket was destroyed: 'close'.
OnSocketClose(s) ==
  /\ sock[s] \in {"open", "destroyed"}
  /\ Commit([stop(World, s) EXCEPT !.sock[s] = "closed"])
  /\ Handles

\* 'error': Node destroys the socket whatever the listener does.
OnSocketError(s) ==
  /\ sock[s] = "open"
  /\ Commit([stop(World, s) EXCEPT !.sock[s] = "destroyed"])
  /\ Handles

\* 'timeout' (socket idle for pingTimeout), or stop() called by the embedder.
OnSocketTimeout(s) ==
  /\ sock[s] = "open"
  /\ Commit(stop(World, s))
  /\ Handles

\* NodeRtmpServer.stop
ServerStop ==
  /\ listening
  /\ listening' = FALSE
  /\ Commit([World EXCEPT
       !.sock = [i \in Ids |-> IF i \in sessions /\ sock[i] = "open" THEN "destroyed" ELSE sock[i]],
       !.sessions = {}])
  /\ UNCHANGED << config, nextId, handled, budget >>

\* One of the session's interval timers comes due. The interval is periodic:
\* it stays set.
PingFire(s) ==
  /\ pings[s] > 0
  /\ Commit(sendPingRequest(World, s))
  /\ UNCHANGED << config, listening, nextId, handled, budget >>

\* One of the session's postPublish timeouts comes due.
PostPublishFire(s) ==
  /\ posts[s] > 0
  /\ Commit(postPublishTimeout(World, s))
  /\ UNCHANGED << config, listening, nextId, handled, budget >>

\* socket.remoteAddress is a loopback address or not. Only the authentication gates
\* read isLocal; the first connection is the one that may come from the server's host.
Locality ==
  IF (config.authPublish \/ config.authPlay) /\ nextId = 1 THEN BOOLEAN ELSE {FALSE}

\* When authentication is off or the peer is local the verifier is not asked.
Verdicts(s, enabled) == IF enabled /\ ~sess[s].isLocal THEN BOOLEAN ELSE {TRUE}

Next ==
  \/ \E local \in Locality : Accept(local)
  \/ \E s \in Ids, app \in ConnectApps, rejected \in BOOLEAN : Connect(s, app, rejected)
  \/ \E s \in Ids : CreateStream(s)
  \/ \E s \in Ids, n \in Names \cup {NotAString}, sid \in StreamIds, rejected \in BOOLEAN :
       \E ok \in Verdicts(s, config.authPublish) : Publish(s, n, sid, rejected, ok)
  \/ \E s \in Ids, n \in Names \cup {NotAString}, sid \in StreamIds, rejected \in BOOLEAN :
       \E ok \in Verdicts(s, config.authPlay) : Play(s, n, sid, rejected, ok)
  \/ \E s \in Ids, sid \in StreamIds : DeleteStream(s, sid)
  \/ \E s \in Ids, sid \in StreamIds : CloseStream(s, sid)
  \/ \E s \in Ids, f \in AudioFrames : Audio(s, f)
  \/ \E s \in Ids, f \in VideoFrames : Video(s, f)
  \/ \E s \in Ids, cmd \in {"@setDataFrame", "onTextData"} : Data(s, cmd)
  \/ \E s \in Ids : OnSocketClose(s)
  \/ \E s \in Ids : OnSocketError(s)
  \/ \E s \in Ids : OnSocketTimeout(s)
  \/ ServerStop

Spec == Init /\ [][Next]_vars

\* ---------------------------------------------------- timers coming due
\* The configurations without authentication, with the timers of the sessions
\* coming due between the socket events.
InitTimers ==
  /\ config \in {c \in Configs : ~c.authPublish /\ ~c.authPlay}
  /\ budget = MaxEvents
  /\ Started
  /\ codec = NoChunks

NextTimers ==
  \/ Accept(FALSE)
  \/ \E s \in Ids, app \in ConnectApps, rejected \in BOOLEAN : Connect(s, app, rejected)
  \/ \E s \in Ids, n \in Names, sid \in StreamIds : Publish(s, n, sid, FALSE, TRUE)
  \/ \E s \in Ids, n \in Names, sid \in StreamIds : Play(s, n, sid, FALSE, TRUE)
  \/ \E s \in Ids, sid \in StreamIds : DeleteStream(s, sid)
  \/ \E s \in Ids : OnSocketClose(s)
  \/ \E s \in Ids : OnSocketError(s)
  \/ \E s \in Ids : OnSocketTimeout(s)
  \/ ServerStop
  \/ \E s \in Ids : PingFire(s)
  \/ \E s \in Ids : PostPublishFire(s)

SpecTimers == InitTimers /\ [][NextTimers]_vars

\* ------------------------------------------------- subscribers that pause
\* One stream name, message stream 1, no listener that rejects, and one more event
\* than Spec: publishers and subscribers that pause, resume and close their gates.
MaxPlaybackEvents == 4

InitPlayback ==
  /\ config = DefaultConfig
  /\ budget = MaxPlaybackEvents
  /\ Started
  /\ codec = NoChunks

NextPlayback ==
  \/ Accept(FALSE)
  \/ \E s \in Ids : Publish(s, "a", 1, FALSE, TRUE)
  \/ \E s \in Ids : Play(s, "a", 1, FALSE, TRUE)
  \/ \E s \in Ids, pause \in BOOLEAN : Pause(s, pause)
  \/ \E s \in Ids, bool \in BOOLEAN : ReceiveAudio(s, bool)
  \/ \E s \in Ids, bool \in BOOLEAN : ReceiveVideo(s, bool)
  \/ \E s \in Ids : DeleteStream(s, 1)
  \/ \E s \in Ids, f \in AudioFrames : Audio(s, f)
  \/ \E s \in Ids, f \in VideoFrames : Video(s, f)
  \/ \E s \in Ids, cmd \in {"@setDataFrame", "onTextData"} : Data(s, cmd)
  \/ \E s \in Ids, cmd \in UnhandledCommands : Invoke(s, cmd)
  \/ \E s \in Ids : OnSocketClose(s)

SpecPlayback == InitPlayback /\ [][NextPlayback]_vars


\* ------------------------------------------------------------- chunks
MaxPayloadLength == 4
MaxChunkLength == 3
MAX_CHUNK_HEADER == 18
rtmpHeaderSize == << 11, 7, 3, 0 >>

Min(a, b) == IF a < b THEN a ELSE b
Zeros(n) == [i \in 1..n |-> 0]
Pow256(k) == IF k = 0 THEN 1 ELSE IF k = 1 THEN 256 ELSE IF k = 2 THEN 65536 ELSE 16777216
ByteOf(v, k) == (v \div Pow256(k)) % 256
UIntBE3(v) == << ByteOf(v, 2), ByteOf(v, 1), ByteOf(v, 0) >>
UInt32BE(v) == << ByteOf(v, 3), ByteOf(v, 2), ByteOf(v, 1), ByteOf(v, 0) >>
UInt32LE(v) == << ByteOf(v, 0), ByteOf(v, 1), ByteOf(v, 2), ByteOf(v, 3) >>
\* buf.readUIntBE(off, 3), buf.readUInt32BE(off), buf.readUInt32LE(off): off from 0
ReadUIntBE3(b, off) == b[off + 1] * 65536 + b[off + 2] * 256 + b[off + 3]
ReadUInt32BE(b, off) ==
  b[off + 1] * 16777216 + b[off + 2] * 65536 + b[off + 3] * 256 + b[off + 4]
ReadUInt32LE(b, off) ==
  b[off + 1] + b[off + 2] * 256 + b[off + 3] * 65536 + b[off + 4] * 16777216

\* src.copy(b, off): the bytes of src that fit are written into b from offset off.
BufferCopy(b, src, off) ==
  [i \in 1..Len(b) |-> IF i > off /\ i - off <= Len(src) THEN src[i - off] ELSE b[i]]

\* b.writeUInt32BE(v, off) on a buffer under construction: a RangeError when the four
\* bytes do not fit.
WriteUInt32BE(st, v, off) ==
  IF st.thrown \/ off + 4 > Len(st.chunks)
  THEN [st EXCEPT !.thrown = TRUE]
  ELSE [st EXCEPT !.chunks = BufferCopy(@, UInt32BE(v), off)]

rtmpChunkBasicHeaderCreate(fmt, cid) ==
  IF cid >= 64 + 255
  THEN << (fmt * 64 + 1) % 256, (cid - 64) % 256, ((cid - 64) \div 256) % 256 >>
  ELSE IF cid >= 64
  THEN << (fmt * 64) % 256, (cid - 64) % 256 >>
  ELSE << (fmt * 64 + cid) % 256 >>

rtmpChunkMessageHeaderCreate(header) ==
  (IF header.fmt <= 2
   THEN UIntBE3(IF header.timestamp >= 16777215 THEN 16777215 ELSE header.timestamp)
   ELSE << >>)
  \o (IF header.fmt <= 1 THEN UIntBE3(header.length) \o << header.type >> ELSE << >>)
  \o (IF header.fmt = 0 THEN UInt32LE(header.stream_id) ELSE << >>)

\* while (payloadSize > 0) { ... } of rtmpChunksCreate
RECURSIVE ChunkPayload(_, _, _, _, _, _)
ChunkPayload(st, packet, chunkSize, payloadSize, chunksOffset, payloadOffset) ==
  IF st.thrown \/ payloadSize <= 0 THEN st
  ELSE IF payloadSize > chunkSize
  THEN
    LET basic3 == rtmpChunkBasicHeaderCreate(3, packet.header.cid)
        piece == SubSeq(packet.payload, payloadOffset + 1, payloadOffset + chunkSize)
        st1 == [st EXCEPT !.chunks =
                  BufferCopy(BufferCopy(@, piece, chunksOffset),
                             basic3, chunksOffset + chunkSize)]
        off == chunksOffset + chunkSize + Len(basic3)
    IN IF packet.header.timestamp >= 16777215
       THEN ChunkPayload(WriteUInt32BE(st1, packet.header.timestamp, off), packet,
                         chunkSize, payloadSize - chunkSize, off + 4,
                         payloadOffset + chunkSize)
       ELSE ChunkPayload(st1, packet, chunkSize, payloadSize - chunkSize, off,
                         payloadOffset + chunkSize)
  ELSE
    [st EXCEPT !.chunks =
       BufferCopy(@, SubSeq(packet.payload, payloadOffset + 1, payloadOffset + payloadSize),
                  chunksOffset)]

\* The chunks built from the packet, or thrown when a write falls outside the buffer.
rtmpChunksCreate(packet, chunkSize) ==
  LET header == packet.header
      payloadSize == header.length
      chunkBasicHeader == rtmpChunkBasicHeaderCreate(header.fmt, header.cid)
      chunkMessageHeader == rtmpChunkMessageHeaderCreate(header)
      useExtendedTimestamp == header.timestamp >= 16777215
      headerSize == Len(chunkBasicHeader) + Len(chunkMessageHeader)
                    + (IF useExtendedTimestamp THEN 4 ELSE 0)
      n0 == headerSize + payloadSize + (payloadSize \div chunkSize)
            + (IF useExtendedTimestamp THEN (payloadSize \div chunkSize) * 4 ELSE 0)
      n == IF payloadSize % chunkSize = 0
           THEN n0 - 1 - (IF useExtendedTimestamp THEN 4 ELSE 0)
           ELSE n0
      st0 == [thrown |-> FALSE,
              chunks |-> BufferCopy(BufferCopy(Zeros(n), chunkBasicHeader, 0),
                                    chunkMessageHeader, Len(chunkBasicHeader))]
      off == Len(chunkBasicHeader) + Len(chunkMessageHeader)
  IN IF useExtendedTimestamp
     THEN ChunkPayload(WriteUInt32BE(st0, header.timestamp, off), packet, chunkSize,
                       payloadSize, off + 4, 0)
     ELSE ChunkPayload(st0, packet, chunkSize, payloadSize, off, 0)

\* RtmpPacket.create(fmt, cid)
RtmpPacketCreate(fmt, cid) ==
  [ header |-> [fmt |-> fmt, cid |-> cid, timestamp |-> 0, length |-> 0, type |-> 0,
                stream_id |-> 0],
    clock |-> 0, delta |-> 0, payload |-> << >>, capacity |-> 0, bytes |-> 0 ]

\* The packets the round trip is tried on: format 0, chunk stream ids of the one-,
\* two- and three-byte forms, timestamps below, at and above 0xFFFFFF.
ChunkCids == {3, 64, 319}
ChunkTimestamps == {1, 16777215, 16777216}
PayloadOf(len) == [i \in 1..len |-> 16 + i]
PacketsToSend ==
  { [RtmpPacketCreate(0, cid) EXCEPT
       !.header.timestamp = ts, !.header.length = len, !.header.type = 8,
       !.header.stream_id = 1, !.payload = PayloadOf(len)] :
    cid \in ChunkCids, ts \in ChunkTimestamps, len \in 0..MaxPayloadLength }

\* The parser of a session after the handshake, with inChunkSize set to chunkSize.
NewParser(packet, chunkSize) ==
  [ sent |-> FALSE, packet |-> packet, chunkSize |-> chunkSize, thrown |-> FALSE,
    data |-> << >>, offset |-> 0,
    parserState |-> "INIT", parserBytes |-> 0, parserBasicBytes |-> 0,
    parserBuffer |-> Zeros(MAX_CHUNK_HEADER),
    cid |-> 0, inPackets |-> EmptyMap, dispatched |-> << >> ]

\* this.parserPacket: the entry of inPackets the parser works on
ParserPacket(c) == c.inPackets[c.cid]

\* data[p + i] stored into a buffer, with p = 0: outside the data it is undefined,
\* which a buffer stores as 0.
DataAt(c, i) == IF i >= 0 /\ i < Len(c.data) THEN c.data[i + 1] ELSE 0

\* data[p + offset .. ] copied into parserBuffer until it holds size bytes
FillParserBuffer(c, size) ==
  LET k == Min(size - c.parserBytes, Len(c.data) - c.offset)
  IN IF k <= 0 THEN c
     ELSE [c EXCEPT !.parserBuffer =
                      BufferCopy(@, [j \in 1..k |-> DataAt(c, c.offset + j - 1)], c.parserBytes),
                    !.parserBytes = @ + k,
                    !.offset = @ + k]

rtmpChunkMessageHeaderRead(c, pkt) ==
  LET fmt == pkt.header.fmt
      b == c.parserBuffer
      o == c.parserBasicBytes
  IN [pkt EXCEPT
        !.header.timestamp = IF fmt <= 2 THEN ReadUIntBE3(b, o) ELSE @,
        !.header.length = IF fmt <= 1 THEN ReadUIntBE3(b, o + 3) ELSE @,
        !.header.type = IF fmt <= 1 THEN b[o + 7] ELSE @,
        !.header.stream_id = IF fmt = 0 THEN ReadUInt32LE(b, o + 7) ELSE @]

\* 64 + b1 + b2 << 8 shifts the whole sum.
rtmpPacketParse(c) ==
  LET b == c.parserBuffer
      fmt == b[1] \div 64
      cid == IF c.parserBasicBytes = 2 THEN 64 + b[2]
             ELSE IF c.parserBasicBytes = 3 THEN (64 + b[2] + b[3]) * 256
             ELSE b[1] % 64
      pkt == IF cid \in DOMAIN c.inPackets THEN c.inPackets[cid] ELSE RtmpPacketCreate(fmt, cid)
      pkt1 == [pkt EXCEPT !.header.fmt = fmt, !.header.cid = cid]
  IN [c EXCEPT !.cid = cid, !.inPackets = MapSet(@, cid, rtmpChunkMessageHeaderRead(c, pkt1))]

rtmpPacketAlloc(pkt) ==
  IF pkt.capacity < pkt.header.length
  THEN [pkt EXCEPT !.payload = Zeros(pkt.header.length),
                   !.capacity = pkt.header.length + 1024]
  ELSE pkt

\* rtmpControlHandler: set chunk size and window acknowledgement size read
\* payload.readUInt32BE(), a TypeError while the packet's payload is null (no
\* buffer was allocated yet: capacity 0). The buffer holds zeros past what was written.
rtmpControlHandler(c) ==
  LET pkt == ParserPacket(c)
  IN IF pkt.header.type \notin {1, 5} THEN c
     ELSE IF pkt.capacity = 0 THEN [c EXCEPT !.thrown = TRUE]
     ELSE IF pkt.header.type = 1
     THEN [c EXCEPT !.chunkSize = ReadUInt32BE(pkt.payload \o Zeros(4), 0)]
     ELSE c

\* rtmpHandler: the message handed to the handlers, which read header.cid, type,
\* length, stream_id, the clock and payload.slice(0, header.length).
rtmpHandler(c) ==
  LET pkt == ParserPacket(c)
      d == [c EXCEPT !.dispatched = Append(@,
             [ cid |-> pkt.header.cid, type |-> pkt.header.type, length |-> pkt.header.length,
               stream_id |-> pkt.header.stream_id, timestamp |-> pkt.clock,
               payload |-> SubSeq(pkt.payload, 1, pkt.header.length) ])]
  IN IF pkt.header.type \in {1, 2, 3, 5, 6} THEN rtmpControlHandler(d) ELSE d

ServerVars ==
  << config, listening, nextId, sess, sock, sessions, publishers, idlePlayers, pings,
     events, out, thrown, stopCalls, handled, posts, verifiedPlay, budget >>

\* socket.write(this.rtmpChunksCreate(packet)) on one side, one 'data' event with
\* these bytes on the other. Nothing is written when rtmpChunksCreate throws.
SendChunks ==
  /\ UNCHANGED ServerVars
  /\ codec.sent = FALSE
  /\ LET st == rtmpChunksCreate(codec.packet, codec.chunkSize)
     IN codec' = [codec EXCEPT !.sent = TRUE, !.thrown = st.thrown,
                               !.data = IF st.thrown THEN << >> ELSE st.chunks]

\* One turn of the loop while (offset < bytes) of rtmpChunkRead in parser state st.
Parsing(st) ==
  /\ UNCHANGED ServerVars
  /\ codec.sent
  /\ ~codec.thrown
  /\ codec.offset < Len(codec.data)
  /\ codec.parserState = st

\* case RTMP_PARSE_INIT
TurnInit(c) ==
  LET b == DataAt(c, c.offset)
  IN [c EXCEPT
        !.parserBytes = 1,
        !.parserBuffer[1] = b,
        !.offset = @ + 1,
        !.parserBasicBytes = IF b % 64 = 0 THEN 2 ELSE IF b % 64 = 1 THEN 3 ELSE 1,
        !.parserState = "BASIC_HEADER"]

\* case RTMP_PARSE_BASIC_HEADER
TurnBasicHeader(c0) ==
  LET c == FillParserBuffer(c0, c0.parserBasicBytes)
  IN IF c.parserBytes >= c.parserBasicBytes
     THEN [c EXCEPT !.parserState = "MESSAGE_HEADER"]
     ELSE c

\* case RTMP_PARSE_MESSAGE_HEADER
TurnMessageHeader(c0) ==
  LET size == rtmpHeaderSize[(c0.parserBuffer[1] \div 64) + 1] + c0.parserBasicBytes
      c == FillParserBuffer(c0, size)
  IN IF c.parserBytes >= size
     THEN [rtmpPacketParse(c) EXCEPT !.parserState = "EXTENDED_TIMESTAMP"]
     ELSE c

\* if (this.parserPacket.bytes === 0) { ... } of RTMP_PARSE_EXTENDED_TIMESTAMP, with a
\* mutant in which a message that starts with fmt 3 keeps the delta of the packet.
StampClockKeepingDelta(pkt, stamp) ==
  IF pkt.bytes # 0 THEN pkt
  ELSE rtmpPacketAlloc(IF pkt.header.fmt = 0
                       THEN [pkt EXCEPT !.clock = stamp, !.delta = 0]
                       ELSE IF pkt.header.fmt = 3 THEN pkt
                       ELSE [pkt EXCEPT !.delta = stamp])

StampClock(pkt, stamp) ==
  IF pkt.bytes # 0 THEN pkt
  ELSE rtmpPacketAlloc(IF pkt.header.fmt = 0
                       THEN [pkt EXCEPT !.clock = stamp, !.delta = 0]
                       ELSE [pkt EXCEPT !.delta = stamp])

\* case RTMP_PARSE_EXTENDED_TIMESTAMP
TurnExtendedTimestamp(c0) ==
  LET h == ParserPacket(c0).header
      base == rtmpHeaderSize[h.fmt + 1] + c0.parserBasicBytes
      size == IF h.timestamp = 16777215 THEN base + 4 ELSE base
      c == FillParserBuffer(c0, size)
      extended_timestamp == IF h.timestamp = 16777215
                            THEN ReadUInt32BE(c.parserBuffer, base) ELSE 0
      stamp == IF h.timestamp = 16777215 THEN extended_timestamp ELSE h.timestamp
  IN IF c.parserBytes >= size
     THEN [c EXCEPT !.inPackets[c.cid] = StampClock(@, stamp),
                    !.parserState = "PAYLOAD"]
     ELSE c

\* case RTMP_PARSE_PAYLOAD
TurnPayload(c0) ==
  LET pkt == ParserPacket(c0)
      size == Min(Min(c0.chunkSize - (pkt.bytes % c0.chunkSize),
                      pkt.header.length - pkt.bytes),
                  Len(c0.data) - c0.offset)
      got == IF size > 0
             THEN BufferCopy(pkt.payload,
                             SubSeq(c0.data, c0.offset + 1, c0.offset + size),
                             pkt.bytes)
             ELSE pkt.payload
      bytes == pkt.bytes + size
      c == [c0 EXCEPT !.offset = @ + size]
  IN IF bytes >= pkt.header.length
     THEN rtmpHandler([c EXCEPT
            !.parserState = "INIT",
            !.inPackets[c.cid] = [pkt EXCEPT !.payload = got, !.bytes = 0,
                                             !.clock = pkt.clock + pkt.delta]])
     ELSE [c EXCEPT
            !.parserState = IF bytes % c0.chunkSize = 0 THEN "INIT" ELSE @,
            !.inPackets[c.cid] = [pkt EXCEPT !.payload = got, !.bytes = bytes]]

ParseInit == Parsing("INIT") /\ codec' = TurnInit(codec)

ParseBasicHeader == Parsing("BASIC_HEADER") /\ codec' = TurnBasicHeader(codec)

ParseMessageHeader == Parsing("MESSAGE_HEADER") /\ codec' = TurnMessageHeader(codec)

ParseExtendedTimestamp ==
  Parsing("EXTENDED_TIMESTAMP") /\ codec' = TurnExtendedTimestamp(codec)

ParsePayload == Parsing("PAYLOAD") /\ codec' = TurnPayload(codec)

InitChunks ==
  /\ config = DefaultConfig
  /\ budget = 0
  /\ Started
  /\ codec \in {NewParser(packet, chunkSize) :
                  packet \in PacketsToSend, chunkSize \in 1..MaxChunkLength}

NextChunks ==
  \/ SendChunks
  \/ ParseInit
  \/ ParseBasicHeader
  \/ ParseMessageHeader
  \/ ParseExtendedTimestamp
  \/ ParsePayload

SpecChunks == InitChunks /\ [][NextChunks]_vars

\* ------------------------------------------------------------ decoder
\* The chunk parser fed by a peer that sends one-byte audio messages, one chunk per
\* data event, with any of the four header formats.
MaxMessages == 3
PeerCids == {3, 320, 65599}
PeerTimestamps == {1, 2, 16777216}

\* The header the peer means by a chunk of format fmt.
PeerHeader(fmt, cid, ts) ==
  [fmt |-> fmt, cid |-> cid, timestamp |-> ts, length |-> 1, type |-> 8, stream_id |-> 1]

\* The bytes of the chunk: basic header, message header, the extended timestamp when
\* the timestamp field in force on the chunk stream (field) is 0xFFFFFF or more, and
\* one byte of payload.
PeerChunk(fmt, cid, field) ==
  rtmpChunkBasicHeaderCreate(fmt, cid)
  \o rtmpChunkMessageHeaderCreate(PeerHeader(fmt, cid, field))
  \o (IF field >= 16777215 THEN UInt32BE(field) ELSE << >>)
  \o << 17 >>

\* The parser of a session after the handshake, and what the peer remembers: the
\* timestamp field it last sent on each chunk stream.
NewDecoder ==
  [ sent |-> TRUE, packet |-> RtmpPacketCreate(0, 0), chunkSize |-> RTMP_CHUNK_SIZE,
    thrown |-> FALSE, data |-> << >>, offset |-> 0,
    parserState |-> "INIT", parserBytes |-> 0, parserBasicBytes |-> 0,
    parserBuffer |-> Zeros(MAX_CHUNK_HEADER),
    cid |-> 0, inPackets |-> EmptyMap, dispatched |-> << >>,
    peer |-> EmptyMap, sentCount |-> 0 ]

\* One data event carrying the next chunk of the peer. Formats 2 and 3 inherit from
\* an earlier chunk on the same chunk stream; a format 3 chunk repeats the timestamp
\* field in force.
PeerSends(fmt, cid, ts) ==
  /\ UNCHANGED ServerVars
  /\ codec.sent
  /\ codec.offset >= Len(codec.data)
  /\ codec.sentCount < MaxMessages
  /\ fmt >= 2 => cid \in DOMAIN codec.peer
  /\ LET field == IF fmt = 3 THEN codec.peer[cid] ELSE ts
     IN codec' = [codec EXCEPT !.data = PeerChunk(fmt, cid, field),
                               !.offset = 0,
                               !.packet.header = PeerHeader(fmt, cid, field),
                               !.peer = MapSet(@, cid, field),
                               !.sentCount = @ + 1]

InitDecode ==
  /\ config = DefaultConfig
  /\ budget = 0
  /\ Started
  /\ codec = NewDecoder

NextDecode ==
  \/ \E fmt \in 0..3, cid \in PeerCids, ts \in PeerTimestamps : PeerSends(fmt, cid, ts)
  \/ ParseInit
  \/ ParseBasicHeader
  \/ ParseMessageHeader
  \/ ParseExtendedTimestamp
  \/ ParsePayload

SpecDecode == InitDecode /\ [][NextDecode]_vars

\* ------------------------------------------------------------- ingest
\* The receiving side of one session: the handshake of onSocketData and the
\* acknowledgement window of rtmpChunkRead, one data event per step. The bytes are
\* counted, not kept; of the messages the chunk reader dispatches only Window
\* Acknowledgement Size matters here.
RTMP_HANDSHAKE_SIZE == 1536

\* Byte counts run past 2^31: a count is kept as hi * 65536 + lo.
Wide(n) == [hi |-> n \div 65536, lo |-> n % 65536]
WideAdd(a, b) ==
  [hi |-> a.hi + b.hi + ((a.lo + b.lo) \div 65536), lo |-> (a.lo + b.lo) % 65536]
WideGE(a, b) == a.hi > b.hi \/ (a.hi = b.hi /\ a.lo >= b.lo)
\* a - b for a >= b
WideSub(a, b) ==
  IF a.lo >= b.lo THEN [hi |-> a.hi - b.hi, lo |-> a.lo - b.lo]
  ELSE [hi |-> a.hi - b.hi - 1, lo |-> a.lo + 65536 - b.lo]

\* 0xf0000000
InAckSizeLimit == [hi |-> 61440, lo |-> 0]
MaxDataEvents == 4
BulkLength == 2013265920
DataLengths == {1, 1535, 1536, 1537, 3073, BulkLength}
AckSizes == {2, 4000}
WindowAckMessageLength == 16

\* received, parsed: the bytes that came in data events and the bytes handed to the
\* chunk reader; acks: the Acknowledgements written, each with these two counts.
NewReceiver ==
  [ handshakeState |-> "UNINIT", handshakeBytes |-> 0,
    ackSize |-> 0, inAckSize |-> Wide(0), inLastAck |-> Wide(0),
    s0s1s2 |-> 0, acks |-> << >>, received |-> Wide(0), parsed |-> Wide(0),
    dataEvents |-> 0 ]

sendACK(c, size) ==
  [c EXCEPT !.acks = Append(@, [size |-> size, received |-> c.received,
                                parsed |-> c.parsed])]

\* rtmpChunkRead with the reset of the counters at 0xf0000000 left out.
rtmpChunkReadWithoutReset(c, dataLength, bytes, windowAck) ==
  LET read == [c EXCEPT !.parsed = WideAdd(@, Wide(bytes)),
                        !.ackSize = IF windowAck > 0 THEN windowAck ELSE @,
                        !.inAckSize = WideAdd(@, Wide(dataLength))]
  IN IF read.ackSize > 0
        /\ WideGE(WideSub(read.inAckSize, read.inLastAck), Wide(read.ackSize))
     THEN sendACK([read EXCEPT !.inLastAck = read.inAckSize], read.inAckSize)
     ELSE read

\* rtmpChunkRead(data, p, bytes) of a data event of dataLength bytes: the parse loop
\* takes the bytes and, when they end a Window Acknowledgement Size message, sets
\* ackSize (windowAck, 0 for none); then the window is accounted.
rtmpChunkRead(c, dataLength, bytes, windowAck) ==
  LET read == [c EXCEPT !.parsed = WideAdd(@, Wide(bytes)),
                        !.ackSize = IF windowAck > 0 THEN windowAck ELSE @,
                        !.inAckSize = WideAdd(@, Wide(dataLength))]
      Window(x) ==
        IF x.ackSize > 0 /\ WideGE(WideSub(x.inAckSize, x.inLastAck), Wide(x.ackSize))
        THEN sendACK([x EXCEPT !.inLastAck = x.inAckSize], x.inAckSize)
        ELSE x
  IN Window(IF WideGE(read.inAckSize, InAckSizeLimit)
            THEN [read EXCEPT !.inAckSize = Wide(0), !.inLastAck = Wide(0)]
            ELSE read)

\* A mutant of the handshake: C2 is not waited for.
RECURSIVE onSocketDataSkippingC2(_, _, _, _)
onSocketDataSkippingC2(c, dataLength, bytes, windowAck) ==
  IF bytes <= 0 THEN c
  ELSE IF c.handshakeState = "UNINIT"
  THEN onSocketDataSkippingC2([c EXCEPT !.handshakeState = "0", !.handshakeBytes = 0],
                              dataLength, bytes - 1, windowAck)
  ELSE IF c.handshakeState = "0"
  THEN LET n == Min(RTMP_HANDSHAKE_SIZE - c.handshakeBytes, bytes)
       IN onSocketDataSkippingC2(
            IF c.handshakeBytes + n = RTMP_HANDSHAKE_SIZE
            THEN [c EXCEPT !.handshakeState = "2", !.handshakeBytes = 0, !.s0s1s2 = @ + 1]
            ELSE [c EXCEPT !.handshakeBytes = @ + n],
            dataLength, bytes - n, windowAck)
  ELSE rtmpChunkRead(c, dataLength, bytes,
                     IF bytes >= WindowAckMessageLength THEN windowAck ELSE 0)

\* while (bytes > 0) switch (this.handshakeState) of onSocketData; bytes is what is
\* left of the data event.
RECURSIVE onSocketData(_, _, _, _)
onSocketData(c, dataLength, bytes, windowAck) ==
  IF bytes <= 0 THEN c
  ELSE IF c.handshakeState = "UNINIT"
  THEN onSocketData([c EXCEPT !.handshakeState = "0", !.handshakeBytes = 0],
                    dataLength, bytes - 1, windowAck)
  ELSE IF c.handshakeState = "0"
  THEN LET n == Min(RTMP_HANDSHAKE_SIZE - c.handshakeBytes, bytes)
       IN onSocketData(
            IF c.handshakeBytes + n = RTMP_HANDSHAKE_SIZE
            THEN [c EXCEPT !.handshakeState = "1", !.handshakeBytes = 0, !.s0s1s2 = @ + 1]
            ELSE [c EXCEPT !.handshakeBytes = @ + n],
            dataLength, bytes - n, windowAck)
  ELSE IF c.handshakeState = "1"
  THEN LET n == Min(RTMP_HANDSHAKE_SIZE - c.handshakeBytes, bytes)
       IN onSocketData(
            IF c.handshakeBytes + n = RTMP_HANDSHAKE_SIZE
            THEN [c EXCEPT !.handshakeState = "2", !.handshakeBytes = 0]
            ELSE [c EXCEPT !.handshakeBytes = @ + n],
            dataLength, bytes - n, windowAck)
  ELSE rtmpChunkRead(c, dataLength, bytes,
                     IF bytes >= WindowAckMessageLength THEN windowAck ELSE 0)

\* One 'data' event of the socket.
SocketData(dataLength, windowAck) ==
  /\ UNCHANGED ServerVars
  /\ codec.dataEvents < MaxDataEvents
  /\ codec' = onSocketData([codec EXCEPT !.received = WideAdd(@, Wide(dataLength)),
                                         !.dataEvents = @ + 1],
                           dataLength, dataLength, windowAck)

InitIngest ==
  /\ config = DefaultConfig
  /\ budget = 0
  /\ Started
  /\ codec = NewReceiver

NextIngest ==
  \E dataLength \in DataLengths, windowAck \in {0} \cup AckSizes :
    SocketData(dataLength, windowAck)

SpecIngest == InitIngest /\ [][NextIngest]_vars

\* ---------------------------------------------------------------- AMF0
\* A JavaScript value is a record with its kind k: a number n, a boolean b, a string s
\* (the sequence of its code points, all in the basic plane), null, undefined, an
\* object (props: the pairs << key, value >> in enumeration order), an Array (items)
\* or an Array marked sarray. A buffer is a sequence of bytes.
JsNumber(n) == [k |-> "number", n |-> n]
JsBool(b) == [k |-> "boolean", b |-> b]
JsString(s) == [k |-> "string", s |-> s]
JsNull == [k |-> "null"]
JsUndefined == [k |-> "undefined"]
JsObject(props) == [k |-> "object", props |-> props]
JsArray(items) == [k |-> "array", items |-> items]
JsSArray(items) == [k |-> "sarray", items |-> items]

\* buf.slice(n)
Slice(buf, n) == SubSeq(buf, n + 1, Len(buf))
UInt16BE(v) == << ByteOf(v, 1), ByteOf(v, 0) >>

\* Buffer.from(str, 'utf8') and buf.toString('utf8') for code points below 0x800; a
\* byte that starts no complete sequence decodes to U+FFFD.
RECURSIVE Utf8(_)
Utf8(str) ==
  IF str = << >> THEN << >>
  ELSE (IF Head(str) < 128 THEN << Head(str) >>
        ELSE << 192 + (Head(str) \div 64), 128 + (Head(str) % 64) >>) \o Utf8(Tail(str))

RECURSIVE Utf8ToString(_)
Utf8ToString(bytes) ==
  IF bytes = << >> THEN << >>
  ELSE IF bytes[1] < 128 THEN << bytes[1] >> \o Utf8ToString(Tail(bytes))
  ELSE IF bytes[1] \in 194..223 /\ Len(bytes) >= 2 /\ bytes[2] \in 128..191
  THEN << (bytes[1] - 192) * 64 + (bytes[2] - 128) >> \o Utf8ToString(Slice(bytes, 2))
  ELSE << 65533 >> \o Utf8ToString(Tail(bytes))

\* buf.toString('utf8', start, end): end is clamped to the length of the buffer.
BufToString(buf, start, end) == Utf8ToString(SubSeq(buf, start + 1, Min(end, Len(buf))))

\* writeDoubleBE / readDoubleBE for the integers 0..65535: sign 0, exponent
\* 1023 + e with 2^e <= n < 2^(e+1), and the e fraction bits at the top of the
\* mantissa. Any other bit pattern reads as NotModelled.
NotModelled == 0 - 1
RECURSIVE Pow2(_)
Pow2(e) == IF e = 0 THEN 1 ELSE 2 * Pow2(e - 1)
Log2(n) == CHOOSE e \in 0..15 : Pow2(e) <= n /\ n < Pow2(e + 1)
DoubleBE(n) ==
  IF n = 0 THEN Zeros(8)
  ELSE LET e == Log2(n)
           top == (n - Pow2(e)) * Pow2(20 - e)
       IN << (1023 + e) \div 16, ((1023 + e) % 16) * 16 + (top \div 65536),
             (top \div 256) % 256, top % 256, 0, 0, 0, 0 >>
ReadDoubleBE(buf, off) ==
  LET b == SubSeq(buf, off + 1, off + 8)
      e == b[1] * 16 + (b[2] \div 16) - 1023
      top == (b[2] % 16) * 65536 + b[3] * 256 + b[4]
  IN IF b = Zeros(8) THEN 0
     ELSE IF e \in 0..15 /\ top % Pow2(20 - e) = 0 /\ SubSeq(b, 5, 8) = Zeros(4)
     THEN Pow2(e) + (top \div Pow2(20 - e))
     ELSE NotModelled

\* What a decoder returns: { len, value }, or a RangeError / TypeError.
Decoded(len, value) == [thrown |-> FALSE, len |-> len, value |-> value]
DecodeThrows == [thrown |-> TRUE, len |-> 0, value |-> JsUndefined]

\* obj[key] = value
PropSet(props, key, value) ==
  IF \E i \in 1..Len(props) : props[i][1] = key
  THEN [i \in 1..Len(props) |-> IF props[i][1] = key THEN << key, value >> ELSE props[i]]
  ELSE Append(props, << key, value >>)

\* for (k in a) over an Array: the indices as strings ('0' .. '9')
IndexProps(items) == [i \in 1..Len(items) |-> << << 47 + i >>, items[i] >>]

amf0encNumber(num) == << 0 >> \o DoubleBE(num)
amf0encBool(b) == << 1, IF b THEN 1 ELSE 0 >>
amf0encNull == << 5 >>
amf0encUndefined == << 6 >>
amf0encDate(ts) == << 11, 0, 0 >> \o DoubleBE(ts)
amf0encUString(str) == UInt16BE(Len(Utf8(str))) \o Utf8(str)
amf0encString(str) == << 2 >> \o UInt16BE(Len(str)) \o Utf8(str)
amf0encLongString(str) == << 12 >> \o UInt32BE(Len(str)) \o Utf8(str)

RECURSIVE amf0EncodeOne(_)
RECURSIVE amf0encProps(_)
amf0encProps(props) ==
  IF props = << >> THEN << >>
  ELSE amf0encUString(Head(props)[1]) \o amf0EncodeOne(Head(props)[2])
       \o amf0encProps(Tail(props))

amf0encObject(props) == << 3 >> \o amf0encProps(props) \o amf0encUString(<< >>) \o << 9 >>

amf0encArray(items) ==
  << 8 >> \o UInt32BE(Len(items)) \o Slice(amf0encObject(IndexProps(items)), 1)

RECURSIVE amf0encItems(_)
amf0encItems(items) ==
  IF items = << >> THEN << >>
  ELSE amf0EncodeOne(Head(items)) \o amf0encItems(Tail(items))

amf0encSArray(items) == << 10 >> \o UInt32BE(Len(items)) \o amf0encItems(items)

\* amfXEncodeOne(amf0eRules, o): the encoder amfType(o) selects
amf0EncodeOne(o) ==
  CASE o.k = "number" -> amf0encNumber(o.n)
    [] o.k = "boolean" -> amf0encBool(o.b)
    [] o.k = "string" -> amf0encString(o.s)
    [] o.k = "null" -> amf0encNull
    [] o.k = "undefined" -> amf0encUndefined
    [] o.k = "object" -> amf0encObject(o.props)
    [] o.k = "array" -> amf0encArray(o.items)
    [] o.k = "sarray" -> amf0encSArray(o.items)

RECURSIVE amf0DecodeOne(_)
RECURSIVE amf0decProps(_, _, _)
\* while (iBuf.readUInt8(0) !== 0x09) { ... } of amf0decObject
amf0decProps(iBuf, len, props) ==
  IF Len(iBuf) < 1 THEN DecodeThrows
  ELSE IF iBuf[1] = 9 THEN Decoded(len, JsObject(props))
  ELSE IF Len(iBuf) < 2 THEN DecodeThrows
  ELSE
    LET propLen == 2 + iBuf[1] * 256 + iBuf[2]
        name == BufToString(iBuf, 2, propLen)
    IN IF Len(iBuf) < propLen THEN Decoded(len + propLen, JsObject(props))
       ELSE IF Len(iBuf) = propLen THEN DecodeThrows
       ELSE IF iBuf[propLen + 1] = 9 THEN Decoded(len + propLen + 1, JsObject(props))
       ELSE IF name = << >> THEN Decoded(len + propLen, JsObject(props))
       ELSE LET val == amf0DecodeOne(Slice(iBuf, propLen))
            IN IF val.thrown THEN DecodeThrows
               ELSE amf0decProps(Slice(iBuf, propLen + val.len), len + propLen + val.len,
                                 PropSet(props, name, val.value))

amf0decObject(buf) == amf0decProps(Slice(buf, 1), 1, << >>)

amf0decArray(buf) ==
  LET obj == amf0decObject(Slice(buf, 4))
  IN IF obj.thrown THEN DecodeThrows ELSE Decoded(5 + obj.len, obj.value)

RECURSIVE amf0decItems(_, _, _, _)
\* for (count = buf.readUInt32BE(1); count; count--) of amf0decSArray
amf0decItems(buf, count, len, items) ==
  IF count = 0 THEN Decoded(len, JsSArray(items))
  ELSE LET ret == amf0DecodeOne(Slice(buf, len))
       IN IF ret.thrown THEN DecodeThrows
          ELSE amf0decItems(buf, count - 1, len + ret.len, Append(items, ret.value))

\* amfXDecodeOne(amf0dRules, buffer); an unknown marker gives null, which the caller
\* dereferences. The markers 0x07, 0x0F, 0x10 and 0x11 are not modelled.
amf0DecodeOne(buf) ==
  IF Len(buf) < 1 THEN DecodeThrows
  ELSE CASE buf[1] = 0 -> IF Len(buf) < 9 THEN DecodeThrows
                          ELSE Decoded(9, JsNumber(ReadDoubleBE(buf, 1)))
         [] buf[1] = 1 -> IF Len(buf) < 2 THEN DecodeThrows
                          ELSE Decoded(2, JsBool(buf[2] # 0))
         [] buf[1] = 2 -> IF Len(buf) < 3 THEN DecodeThrows
                          ELSE Decoded(3 + buf[2] * 256 + buf[3],
                                       JsString(BufToString(buf, 3, 3 + buf[2] * 256 + buf[3])))
         [] buf[1] = 3 -> amf0decObject(buf)
         [] buf[1] = 5 -> Decoded(1, JsNull)
         [] buf[1] = 6 -> Decoded(1, JsUndefined)
         [] buf[1] = 8 -> amf0decArray(buf)
         [] buf[1] = 10 -> IF Len(buf) < 5 THEN DecodeThrows
                           ELSE amf0decItems(buf, ReadUInt32BE(buf, 1), 5, << >>)
         [] buf[1] = 11 -> IF Len(buf) < 11 THEN DecodeThrows
                           ELSE Decoded(11, JsNumber(ReadDoubleBE(buf, 3)))
         [] buf[1] = 12 -> IF Len(buf) < 5 THEN DecodeThrows
                           ELSE Decoded(5 + ReadUInt32BE(buf, 1),
                                        JsString(BufToString(buf, 5, 5 + ReadUInt32BE(buf, 1))))
         [] OTHER -> DecodeThrows

\* The names of rtmpCmdCode the model uses, as code points, and their fields.
CmdChars ==
  [ connect |-> << 99, 111, 110, 110, 101, 99, 116 >>,
    createStream |-> << 99, 114, 101, 97, 116, 101, 83, 116, 114, 101, 97, 109 >>,
    onStatus |-> << 111, 110, 83, 116, 97, 116, 117, 115 >>,
    play |-> << 112, 108, 97, 121 >> ]
rtmpCmdCode ==
  [ connect |-> << "transId", "cmdObj", "args" >>,
    createStream |-> << "transId", "cmdObj" >>,
    onStatus |-> << "transId", "cmdObj", "info" >>,
    play |-> << "transId", "cmdObj", "streamName", "start", "duration", "reset" >> ]

\* rtmpCmdCode[cmd]: the field names, or none for an unknown command
CmdFields(chars) ==
  IF \E c \in DOMAIN CmdChars : CmdChars[c] = chars
  THEN rtmpCmdCode[CHOOSE c \in DOMAIN CmdChars : CmdChars[c] = chars]
  ELSE << >>

RECURSIVE encodeFields(_, _)
encodeFields(opt, names) ==
  IF names = << >> THEN << >>
  ELSE (IF Head(names) \in DOMAIN opt.fields THEN amf0EncodeOne(opt.fields[Head(names)])
        ELSE << >>) \o encodeFields(opt, Tail(names))

\* opt: the command name (cmd) and the own properties the schema names (fields)
encodeAMF0Cmd(opt) == amf0EncodeOne(JsString(opt.cmd)) \o encodeFields(opt, CmdFields(opt.cmd))

RECURSIVE decodeFields(_, _, _)
decodeFields(buffer, names, resp) ==
  IF names = << >> \/ resp.thrown THEN resp
  ELSE IF Len(buffer) > 0
  THEN LET r == amf0DecodeOne(buffer)
       IN IF r.thrown THEN [resp EXCEPT !.thrown = TRUE]
          ELSE decodeFields(Slice(buffer, r.len), Tail(names),
                            [resp EXCEPT !.fields = MapSet(@, Head(names), r.value)])
  ELSE decodeFields(buffer, Tail(names), resp)

decodeAMF0Cmd(dbuf) ==
  LET cmd == amf0DecodeOne(dbuf)
  IN IF cmd.thrown THEN [thrown |-> TRUE, cmd |-> << >>, fields |-> EmptyMap]
     ELSE decodeFields(Slice(dbuf, cmd.len),
                       IF cmd.value.k = "string" THEN CmdFields(cmd.value.s) ELSE << >>,
                       [thrown |-> FALSE,
                        cmd |-> IF cmd.value.k = "string" THEN cmd.value.s ELSE << >>,
                        fields |-> EmptyMap])

\* The values and commands the round trip is tried on.
MaxItems == 2
AmfNumbers == {0, 1, 5, 300}
AmfStrings == {<< >>, << 97 >>, << 97, 98 >>, << 233 >>}
AmfKeys == {<< 97 >>, << 98 >>}
AmfScalars ==
  {JsNumber(n) : n \in AmfNumbers} \cup {JsBool(b) : b \in BOOLEAN}
  \cup {JsString(str) : str \in AmfStrings} \cup {JsNull, JsUndefined}
AmfMembers == {JsNumber(1), JsString(<< 97 >>), JsNull}
AmfItems == UNION {[1..n -> AmfMembers] : n \in 0..MaxItems}
AmfProps ==
  {<< >>} \cup {<< << key, v >> >> : key \in AmfKeys, v \in AmfMembers}
  \cup {props \in {<< << k1, v1 >>, << k2, v2 >> >> :
                      k1 \in AmfKeys, k2 \in AmfKeys, v1 \in AmfMembers, v2 \in AmfMembers} :
          props[1][1] # props[2][1]}
AmfNested ==
  { JsObject(<< << << 97 >>, JsObject(<< << << 98 >>, JsNumber(1) >> >>) >> >>),
    JsObject(<< << << 97 >>, JsSArray(<< JsNumber(1) >>) >>, << << 98 >>, JsNumber(5) >> >>),
    JsObject(<< << << 97 >>, JsArray(<< JsNumber(1) >>) >>, << << 98 >>, JsNumber(5) >> >>),
    JsSArray(<< JsObject(<< << << 97 >>, JsNumber(1) >> >>), JsBool(FALSE) >>) }
AmfValues ==
  AmfScalars \cup {JsObject(props) : props \in AmfProps}
  \cup {JsArray(items) : items \in AmfItems} \cup {JsSArray(items) : items \in AmfItems}
  \cup AmfNested

\* The value a command carries in the field of each name.
FieldValue ==
  [ transId |-> JsNumber(1), cmdObj |-> JsNull,
    args |-> JsObject(<< << << 97 >>, JsNumber(1) >> >>),
    info |-> JsObject(<< << << 98 >>, JsString(<< 97 >>) >> >>),
    streamName |-> JsString(<< 97 >>), start |-> JsNumber(0), duration |-> JsNumber(5),
    reset |-> JsBool(TRUE) ]
AmfCommands ==
  UNION {{ [cmd |-> CmdChars[c], fields |-> [n \in names |-> FieldValue[n]]] :
             names \in SUBSET Range(rtmpCmdCode[c]) } : c \in DOMAIN rtmpCmdCode}

\* how: the encoder applied to the input, amf0EncodeOne (one), amf0encDate (date),
\* amf0encLongString (longstring) or encodeAMF0Cmd (cmd).
AmfInput(how, input) ==
  [sent |-> FALSE, stage |-> "value", how |-> how, input |-> input, bytes |-> << >>,
   output |-> DecodeThrows]
AmfInputs ==
  {AmfInput("one", v) : v \in AmfValues}
  \cup {AmfInput("date", JsNumber(n)) : n \in AmfNumbers}
  \cup {AmfInput("longstring", JsString(str)) : str \in AmfStrings}
  \cup {AmfInput("cmd", m) : m \in AmfCommands}

AmfEncode ==
  /\ UNCHANGED ServerVars
  /\ codec.stage = "value" /\ codec.how # "cmd"
  /\ codec' = [codec EXCEPT
                 !.stage = "encoded",
                 !.bytes = CASE codec.how = "date" -> amf0encDate(codec.input.n)
                             [] codec.how = "longstring" -> amf0encLongString(codec.input.s)
                             [] OTHER -> amf0EncodeOne(codec.input)]

AmfDecode ==
  /\ UNCHANGED ServerVars
  /\ codec.stage = "encoded" /\ codec.how # "cmd"
  /\ codec' = [codec EXCEPT !.stage = "decoded", !.output = amf0DecodeOne(codec.bytes)]

CmdEncode ==
  /\ UNCHANGED ServerVars
  /\ codec.stage = "value" /\ codec.how = "cmd"
  /\ codec' = [codec EXCEPT !.stage = "encoded", !.bytes = encodeAMF0Cmd(codec.input)]

CmdDecode ==
  /\ UNCHANGED ServerVars
  /\ codec.stage = "encoded" /\ codec.how = "cmd"
  /\ codec' = [codec EXCEPT !.stage = "decoded", !.output = decodeAMF0Cmd(codec.bytes)]

InitAmf ==
  /\ config = DefaultConfig
  /\ budget = 0
  /\ Started
  /\ codec \in AmfInputs

NextAmf ==
  \/ AmfEncode
  \/ AmfDecode
  \/ CmdEncode
  \/ CmdDecode

SpecAmf == InitAmf /\ [][NextAmf]_vars

\* ----------------------------------------------------- received messages
\* The payloads of the command and data messages a peer sends, as bytes, and what
\* rtmpInvokeHandler and rtmpDataHandler make of them: decodeAMF0Cmd and
\* decodeAmf0Data run inside the socket's 'data' handler, which catches nothing.
MaxReceived == 3

\* The bytes of an AMF0 String and of the Number 0.
AmfStr(chars) == << 2, 0, Len(chars) >> \o chars
AmfZero == << 0, 0, 0, 0, 0, 0, 0, 0, 0 >>
\* 0x0E is a marker amf0dRules has no decoder for.
UnknownMarker == 14

SetDataFrameChars == << 64, 115, 101, 116, 68, 97, 116, 97, 70, 114, 97, 109, 101 >>
OnMetaDataChars == << 111, 110, 77, 101, 116, 97, 68, 97, 116, 97 >>

\* rtmpDataCode[cmd]: the field names of the data messages the model uses.
DataFields(chars) ==
  IF chars = SetDataFrameChars THEN << "method", "dataObj" >>
  ELSE IF chars = OnMetaDataChars THEN << "dataObj" >>
  ELSE << >>

decodeAmf0Data(dbuf) ==
  LET cmd == amf0DecodeOne(dbuf)
  IN IF cmd.thrown THEN [thrown |-> TRUE, cmd |-> << >>, fields |-> EmptyMap]
     ELSE decodeFields(Slice(dbuf, cmd.len),
                       IF cmd.value.k = "string" THEN DataFields(cmd.value.s) ELSE << >>,
                       [thrown |-> FALSE,
                        cmd |-> IF cmd.value.k = "string" THEN cmd.value.s ELSE << >>,
                        fields |-> EmptyMap])

\* Command payloads: a play command, an unknown command, and payloads with the
\* unknown marker as the name, as an argument, inside an object, and after an
\* unknown name.
InvokePayloads ==
  { AmfStr(CmdChars.play) \o AmfZero \o << 5 >> \o AmfStr(<< 97 >>),
    AmfStr(<< 122, 122 >>) \o AmfZero,
    << UnknownMarker >>,
    AmfStr(CmdChars.play) \o AmfZero \o << UnknownMarker >>,
    AmfStr(CmdChars.connect) \o AmfZero \o << 3, 0, 1, 97, UnknownMarker, 0, 0, 9 >>,
    AmfStr(<< 122, 122 >>) \o << UnknownMarker >> }

\* Data payloads: @setDataFrame with an empty object, an unknown name, and payloads
\* with the unknown marker as the name and as the data object.
DataPayloads ==
  { AmfStr(SetDataFrameChars) \o AmfStr(OnMetaDataChars) \o << 3, 0, 0, 9 >>,
    AmfStr(<< 122, 122 >>) \o AmfZero,
    << UnknownMarker >>,
    AmfStr(SetDataFrameChars) \o AmfStr(OnMetaDataChars) \o << UnknownMarker >> }

\* The payload has the unknown marker (the payloads above hold the byte 14 only
\* where a marker stands).
HasUnknownMarker(payload) ==
  \E i \in 1..Len(payload) : payload[i] = UnknownMarker

NewInbox == [sent |-> FALSE, received |-> << >>, thrown |-> FALSE]

\* An exception leaves the 'data' handler uncaught: nothing more is received.
Received(c, type, payload, message) ==
  [c EXCEPT !.received = Append(@, [type |-> type, payload |-> payload,
                                    thrown |-> message.thrown]),
            !.thrown = message.thrown]

ReceiveInvoke(payload) ==
  /\ UNCHANGED ServerVars
  /\ ~codec.thrown /\ Len(codec.received) < MaxReceived
  /\ codec' = Received(codec, "invoke", payload, decodeAMF0Cmd(payload))

ReceiveData(payload) ==
  /\ UNCHANGED ServerVars
  /\ ~codec.thrown /\ Len(codec.received) < MaxReceived
  /\ codec' = Received(codec, "data", payload, decodeAmf0Data(payload))

InitReceive ==
  /\ config = DefaultConfig
  /\ budget = 0
  /\ Started
  /\ codec = NewInbox

NextReceive ==
  \/ \E payload \in InvokePayloads : ReceiveInvoke(payload)
  \/ \E payload \in DataPayloads : ReceiveData(payload)

SpecReceive == InitReceive /\ [][NextReceive]_vars

\* ----------------------------------------------------------- segments
\* One byte stream - the handshake bytes C0, C1, C2 and three chunked messages -
\* received once in a single data event and once cut into several data events.

\* while (offset < bytes) switch (this.parserState) of rtmpChunkRead
RECURSIVE ParseLoop(_)
ParseLoop(c) ==
  IF c.thrown \/ c.offset >= Len(c.data) THEN c
  ELSE ParseLoop(CASE c.parserState = "INIT" -> TurnInit(c)
                   [] c.parserState = "BASIC_HEADER" -> TurnBasicHeader(c)
                   [] c.parserState = "MESSAGE_HEADER" -> TurnMessageHeader(c)
                   [] c.parserState = "EXTENDED_TIMESTAMP" -> TurnExtendedTimestamp(c)
                   [] OTHER -> TurnPayload(c))

\* The parse loop of rtmpChunkRead(data, p, bytes) on the bytes data[p .. p + bytes).
ParseData(c, data) ==
  [ParseLoop([c EXCEPT !.data = data, !.offset = 0]) EXCEPT !.data = << >>, !.offset = 0]

\* while (bytes > 0) switch (this.handshakeState) of onSocketData, from position p
\* of data: the handshake takes its bytes, the chunk parser the rest. s0s1s2 counts
\* the writes of S0 S1 S2.
RECURSIVE HandshakeLoop(_, _, _)
HandshakeLoop(r, data, p) ==
  IF p >= Len(data) THEN r
  ELSE IF r.handshakeState = "UNINIT"
  THEN HandshakeLoop([r EXCEPT !.handshakeState = "0", !.handshakeBytes = 0], data, p + 1)
  ELSE IF r.handshakeState \in {"0", "1"}
  THEN LET n == Min(RTMP_HANDSHAKE_SIZE - r.handshakeBytes, Len(data) - p)
           full == r.handshakeBytes + n = RTMP_HANDSHAKE_SIZE
       IN HandshakeLoop(
            IF ~full THEN [r EXCEPT !.handshakeBytes = @ + n]
            ELSE IF r.handshakeState = "0"
            THEN [r EXCEPT !.handshakeState = "1", !.handshakeBytes = 0, !.s0s1s2 = @ + 1]
            ELSE [r EXCEPT !.handshakeState = "2", !.handshakeBytes = 0],
            data, p + n)
  ELSE [r EXCEPT !.parser = ParseData(@, SubSeq(data, p + 1, Len(data)))]

\* onSocketData with a count of handshake bytes that does not outlive the call.
onSocketDataCountingAnew(r, data) == HandshakeLoop([r EXCEPT !.handshakeBytes = 0], data, 0)

\* onSocketData(data) on the bytes of one data event.
onSocketDataBytes(r, data) == HandshakeLoop(r, data, 0)

\* The bytes of one chunk: header of format fmt with timestamp field, the extended
\* timestamp when the field in force is 0xFFFFFF or more, and the payload bytes.
ChunkBytes(fmt, cid, field, length, type, payload) ==
  rtmpChunkBasicHeaderCreate(fmt, cid)
  \o rtmpChunkMessageHeaderCreate([fmt |-> fmt, cid |-> cid, timestamp |-> field,
                                   length |-> length, type |-> type, stream_id |-> 1])
  \o (IF field >= 16777215 THEN UInt32BE(field) ELSE << >>)
  \o payload

\* C0 C1 C2, then with a peer chunk size of 1: an audio message of two bytes in two
\* chunks, an audio message of no bytes, and a video message of one byte with a
\* format 1 header and delta 5.
StreamOf(cid, field) ==
  [i \in 1..(1 + 2 * RTMP_HANDSHAKE_SIZE) |-> 3]
  \o ChunkBytes(0, cid, field, 2, 8, << 17 >>)
  \o ChunkBytes(3, cid, field, 2, 8, << 18 >>)
  \o ChunkBytes(0, cid, field, 0, 8, << >>)
  \o ChunkBytes(1, cid, 5, 1, 9, << 19 >>)

MaxSegments == 3
SegmentStreams == {StreamOf(cid, field) : cid \in ChunkCids, field \in {1, 16777216}}

\* Where a stream may be cut: around the ends of C0, C1 and C2, and at every byte
\* of the chunks.
CutPoints(stream) ==
  {1, RTMP_HANDSHAKE_SIZE, RTMP_HANDSHAKE_SIZE + 1, 2 * RTMP_HANDSHAKE_SIZE}
  \cup (2 * RTMP_HANDSHAKE_SIZE + 1)..Len(stream)

AllCutPoints == UNION {CutPoints(stream) : stream \in SegmentStreams}

NewSocketReader ==
  [ handshakeState |-> "UNINIT", handshakeBytes |-> 0, s0s1s2 |-> 0,
    parser |-> [NewParser(RtmpPacketCreate(0, 0), 1) EXCEPT !.sent = TRUE] ]

NewSegments(stream) ==
  [ sent |-> FALSE, stream |-> stream, whole |-> NewSocketReader, wholeDone |-> FALSE,
    split |-> NewSocketReader, pos |-> 0, segments |-> 0 ]

\* The whole stream arrives in one data event.
DataWhole ==
  /\ UNCHANGED ServerVars
  /\ ~codec.wholeDone
  /\ codec' = [codec EXCEPT !.wholeDone = TRUE,
                            !.whole = onSocketDataBytes(@, codec.stream)]

\* The next data event carries the stream up to the cut; the last one allowed
\* carries all that is left.
DataSegment(cut) ==
  /\ UNCHANGED ServerVars
  /\ cut \in CutPoints(codec.stream)
  /\ codec.pos < cut
  /\ codec.segments < MaxSegments
  /\ codec.segments = MaxSegments - 1 => cut = Len(codec.stream)
  /\ codec' = [codec EXCEPT
                 !.pos = cut,
                 !.segments = @ + 1,
                 !.split = onSocketDataBytes(@, SubSeq(codec.stream, codec.pos + 1, cut))]

InitSegments ==
  /\ config = DefaultConfig
  /\ budget = 0
  /\ Started
  /\ codec \in {NewSegments(stream) : stream \in SegmentStreams}

NextSegments ==
  \/ DataWhole
  \/ \E cut \in AllCutPoints : DataSegment(cut)

SpecSegments == InitSegments /\ [][NextSegments]_vars

\* ------------------------------------------------------------ fan-out
\* One publisher, its chunk buffers and its subscribers' sockets. A chunk buffer is
\* known by its number; of its bytes the model keeps the message stream id at
\* offset 8. socket.write does not copy the buffer it is given: a socket that
\* cannot transmit at once keeps a reference and transmits later what the buffer
\* holds then.
MaxFrames == 2
Subscribers == {1, 2}
PlayStreamIds == {1, 2}

NewBroadcast(ids) ==
  [ playStreamId |-> ids,
    players |-> << >>,
    chunks |-> << >>,
    rtmpGopCacheQueue |-> << >>,
    pending |-> [k \in Subscribers |-> << >>],
    wire |-> [k \in Subscribers |-> << >>] ]

\* rtmpChunks.writeUInt32LE(sid, 8) on buffer n.
writeUInt32LE(c, n, sid) == [c EXCEPT !.chunks[n] = sid]

\* What a socket transmits of buffer n: the bytes the buffer holds at that time.
Transmitted(c, n) == [chunks |-> n, stream_id |-> c.chunks[n]]

\* socket.write(rtmpChunks) on the socket of subscriber k: transmitted at once, or
\* queued by reference when the socket is in slow or has writes pending.
socketWrite(c, k, n, slow) ==
  IF k \in slow \/ c.pending[k] # << >>
  THEN [c EXCEPT !.pending[k] = Append(@, n)]
  ELSE [c EXCEPT !.wire[k] = Append(@, Transmitted(c, n))]

\* for (const playerId of this.players): patch buffer n and write it.
RECURSIVE LiveFanOut(_, _, _, _)
LiveFanOut(c, n, i, slow) ==
  IF i > Len(c.players) THEN c
  ELSE LET k == c.players[i]
       IN LiveFanOut(socketWrite(writeUInt32LE(c, n, c.playStreamId[k]), k, n, slow),
                     n, i + 1, slow)

\* for (const chunks of publisher.rtmpGopCacheQueue): patch each and write it to k.
RECURSIVE GopReplay(_, _, _, _)
GopReplay(c, k, i, slow) ==
  IF i > Len(c.rtmpGopCacheQueue) THEN c
  ELSE LET n == c.rtmpGopCacheQueue[i]
       IN GopReplay(socketWrite(writeUInt32LE(c, n, c.playStreamId[k]), k, n, slow),
                    k, i + 1, slow)

\* The publisher receives an audio or video frame (cached) or a metadata message
\* (not cached): rtmpChunksCreate builds a buffer with stream id 0, and the buffer
\* is fanned out.
MediaFrame(cached, slow) ==
  /\ UNCHANGED ServerVars
  /\ Len(codec.chunks) < MaxFrames
  /\ LET n == Len(codec.chunks) + 1
         c1 == [codec EXCEPT !.chunks = Append(@, 0),
                             !.rtmpGopCacheQueue = IF cached THEN Append(@, n) ELSE @]
     IN codec' = LiveFanOut(c1, n, 1, slow)

\* Subscriber k plays the stream: onPlay adds it to players, onStartPlay replays
\* the GOP cache to it.
StartPlay(k, slow) ==
  /\ UNCHANGED ServerVars
  /\ k \notin Range(codec.players)
  /\ codec' = GopReplay([codec EXCEPT !.players = Append(@, k)], k, 1, slow)

\* The socket of subscriber k transmits the first buffer it has pending.
Transmit(k) ==
  /\ UNCHANGED ServerVars
  /\ codec.pending[k] # << >>
  /\ codec' = [codec EXCEPT !.pending[k] = Tail(@),
                            !.wire[k] = Append(@, Transmitted(codec, Head(codec.pending[k])))]

InitFanOut ==
  /\ config = DefaultConfig
  /\ budget = 0
  /\ Started
  /\ codec \in {NewBroadcast(ids) : ids \in [Subscribers -> PlayStreamIds]}

NextFanOut ==
  \/ \E cached \in BOOLEAN, slow \in SUBSET Subscribers : MediaFrame(cached, slow)
  \/ \E k \in Subscribers, slow \in SUBSET Subscribers : StartPlay(k, slow)
  \/ \E k \in Subscribers : Transmit(k)

SpecFanOut == InitFanOut /\ [][NextFanOut]_vars

\* ------------------------------------------------------------ notions
Created == 1..(nextId - 1)
IdleSet == Range(idlePlayers)
PlayersOf(i) == Range(sess[i].players)
PublishersOf(s) == {i \in Created : s \in PlayersOf(i)}
Codes(q) == {q[i].code : i \in 1..Len(q)}
NoOutput == [i \in Ids |-> << >>]

\* The authentication gate of publish lets session s through.
PassesPublishAuth(s, ok) == ~config.authPublish \/ sess[s].isLocal \/ ok

\* What a publisher keeps for its subscribers.
Holdings(r) ==
  << r.isPublishing, r.players, r.gopCacheNull, r.rtmpGopCacheQueue,
     r.metaData, r.aacSequenceHeader, r.avcSequenceHeader >>

\* ----------------------------------------------------------------- C1
DuplicateRejected(s, n, sid) ==
  LET path == StreamPath(sess[s].appname, n)
      inc == publishers[path]
  IN /\ out'[s] = << StatusMsg(sid, "error", "NetStream.Publish.BadName") >>
     /\ publishers' = publishers
     /\ inc # s => Holdings(sess'[inc]) = Holdings(sess[inc]) /\ out'[inc] = << >>
     /\ inc = s => Holdings(sess'[s]) = Holdings(sess[s])

\* C1 as stated: every publish command (of a running session that no listener
\* stops) that names a path which already has an entry in publishers is answered
\* with the error status NetStream.Publish.BadName, and leaves publishers and the
\* incumbent's flag, subscribers and caches as they were.
C1_AnyDuplicatePublishGetsBadName ==
  [][\A s \in Ids, n \in Names :
       (/\ sock[s] = "open"
        /\ sess[s].isStarting
        /\ MapHas(publishers, StreamPath(sess[s].appname, n)))
       => \A sid \in StreamIds, ok \in BOOLEAN :
            Publish(s, n, sid, FALSE, ok) => DuplicateRejected(s, n, sid)]_vars

\* C1 amended: a publish command of a running session that no prePublish listener
\* stops and that passes the authentication gate, naming a path which already has an
\* entry in publishers, is answered with exactly one message, the error status
\* NetStream.Publish.BadName; publishers is unchanged (the path still maps to the
\* incumbent) and the incumbent's isPublishing flag, subscriber set, GOP cache,
\* metadata and sequence headers are unchanged.
C1_DuplicatePublishRejected ==
  [][\A s \in Ids, n \in Names :
       (/\ sock[s] = "open"
        /\ sess[s].isStarting
        /\ MapHas(publishers, StreamPath(sess[s].appname, n)))
       => \A sid \in StreamIds, ok \in BOOLEAN :
            (PassesPublishAuth(s, ok) /\ Publish(s, n, sid, FALSE, ok))
            => DuplicateRejected(s, n, sid)]_vars

\* A session other than the publisher of a path was just refused with BadName
\* while the incumbent, which has a subscriber, still owns the path.
C1_Witness ==
  \E s \in Created, p \in DOMAIN publishers :
    /\ publishers[p] # s
    /\ sess[s].publishStreamPath = p
    /\ "NetStream.Publish.BadName" \in Codes(out[s])
    /\ sess[publishers[p]].isPublishing
    /\ sess[publishers[p]].players # << >>

\* ----------------------------------------------------------------- C2
\* C2: in every reachable state, every key p of publishers maps to a session
\* whose publishStreamPath is p and whose isPublishing is true.
C2_PublishersPointAtPublishing ==
  \A p \in DOMAIN publishers :
    /\ sess[publishers[p]].publishStreamPath = p
    /\ sess[publishers[p]].isPublishing

\* ----------------------------------------------------------------- C3
\* The registries that hold session s as a subscriber: idlePlayers counts once,
\* and so does every subscriber set s is a member of.
Memberships(s) == Cardinality(PublishersOf(s)) + (IF s \in IdleSet THEN 1 ELSE 0)

\* C3: in every reachable state, a session is never in idlePlayers and in a
\* subscriber set at once, never in two subscriber sets, and a live session that
\* has issued a play and not yet left it (isPlaying or isIdling) is in exactly one
\* of them.
C3_SubscriberInExactlyOnePlace ==
  \A s \in Created :
    /\ Memberships(s) <= 1
    /\ (s \in sessions /\ (sess[s].isPlaying \/ sess[s].isIdling)) => Memberships(s) = 1

\* ----------------------------------------------------------------- C4
\* C4: in every reachable state, a session id is in idlePlayers if and only if
\* the session's isIdling flag is true and the id is in no subscriber set.
C4_IdleIffIdlingAndUnsubscribed ==
  \A s \in Created :
    s \in IdleSet <=> (sess[s].isIdling /\ PublishersOf(s) = {})

\* ----------------------------------------------------------------- C5
\* The media messages (metadata, audio, video) among the messages q.
MediaOf(q) == SelectSeq(q, LAMBDA m : m.t \in {"meta", "audio", "video"})

\* What a subscriber that joins publisher r on stream id sid is to be sent first.
Replay(r, sid) ==
  (IF r.metaData # NoFrame THEN << MediaMsg(sid, r.metaData) >> ELSE << >>)
  \o (IF r.audioCodec = 10 THEN << MediaMsg(sid, AacSeqHeader) >> ELSE << >>)
  \o (IF r.videoCodec \in {7, 12} THEN << MediaMsg(sid, AvcSeqHeader) >> ELSE << >>)
  \o (IF r.gopCacheNull THEN << >>
      ELSE [i \in 1..Len(r.rtmpGopCacheQueue) |-> MediaMsg(sid, r.rtmpGopCacheQueue[i])])

\* C5: in every step that binds a subscriber s to a publisher p (s becomes a member
\* of p's subscriber set), the media messages written to s's socket are exactly:
\* the cached metadata (if cached), the AAC sequence header (if p's audio codec is
\* 10), the AVC sequence header (if p's video codec is 7 or 12), then the GOP cache
\* in cache order; no live frame comes before or among them.
C5_JoinReplayInOrder ==
  [][\A p \in Ids, s \in Ids :
       (s \notin PlayersOf(p) /\ s \in Range(sess'[p].players))
       => MediaOf(out'[s]) = Replay(sess[p], sess'[s].playStreamId)]_vars

\* ----------------------------------------------------------------- C6
\* The step is a socket event of session s that calls stop().
Stops(s) == OnSocketClose(s) \/ OnSocketError(s) \/ OnSocketTimeout(s)

\* The paths registered to session s.
PathsOf(s) == {p \in DOMAIN publishers : publishers[p] = s}

\* Session s, which was publishing, has unpublished and its subscribers are idle.
Unpublished(s) ==
  /\ \A i \in PlayersOf(s) :
       /\ "NetStream.Play.UnpublishNotify" \in Codes(out'[i])
       /\ "StreamEOF" \in Codes(out'[i])
       /\ i \in Range(idlePlayers')
       /\ sess'[i].isIdling /\ ~sess'[i].isPlaying
  /\ sess'[s].players = << >>
  /\ sess'[s].rtmpGopCacheQueue = << >>
  /\ \A p \in PathsOf(s) :
       /\ p \notin DOMAIN publishers'
       /\ Event("donePublish", s, p) \in Range(events')

\* C6: in every step in which a publishing session unpublishes (deleteStream or
\* closeStream on its publish stream id, or a stop of the running session), each of
\* its subscribers is sent NetStream.Play.UnpublishNotify and a StreamEOF and ends
\* in idlePlayers with isIdling true and isPlaying false; the publisher's subscriber
\* set and GOP cache end empty, publishers has no entry for its path, and a
\* donePublish event with that path is emitted.
C6_UnpublishIdlesSubscribers ==
  [][\A s \in Ids :
       (sess[s].isPublishing /\ PathsOf(s) # {})
       => /\ (sess[s].isStarting /\ Stops(s)) => Unpublished(s)
          /\ (DeleteStream(s, sess[s].publishStreamId)
              \/ CloseStream(s, sess[s].publishStreamId)) => Unpublished(s)]_vars

\* ----------------------------------------------------------------- C7
\* The step is a publish command of session s that succeeds for path p.
PublishSucceeds(s, p) ==
  /\ sock[s] = "open"
  /\ ~MapHas(publishers, p)
  /\ MapHas(publishers', p) /\ publishers'[p] = s
  /\ "NetStream.Publish.Start" \in Codes(out'[s])

\* What a session keeps about the stream it plays.
Subscription(r) == << r.isIdling, r.isPlaying, r.playStreamPath, r.playStreamId >>

\* The live sessions in idlePlayers.
LiveIdle == IdleSet \cap sessions

\* C7 (the step): when a publish for path p succeeds, every live idle player that
\* waits for p leaves idlePlayers, joins the publisher's subscriber set with
\* isPlaying true and isIdling false and is sent the join replay; the other idle
\* players stay in idlePlayers unchanged.
PublishMovesIdlePlayers ==
  \A s \in Ids, p \in Paths :
    PublishSucceeds(s, p) =>
      \A i \in LiveIdle :
        IF sess[i].playStreamPath = p
        THEN /\ i \notin Range(idlePlayers')
             /\ i \in Range(sess'[s].players)
             /\ sess'[i].isPlaying /\ ~sess'[i].isIdling
             /\ MediaOf(out'[i]) = Replay(sess[s], sess[i].playStreamId)
        ELSE /\ i \in Range(idlePlayers')
             /\ Subscription(sess'[i]) = Subscription(sess[i])
             /\ MediaOf(out'[i]) = << >>

\* C7 (the consequence): no live member of idlePlayers waits for a path that has a
\* publisher.
NoIdleWaitsForPublished ==
  \A i \in LiveIdle : ~MapHas(publishers, sess[i].playStreamPath)

\* C7: a successful publish moves the idle players of its path to the publisher,
\* and so no idle player ever waits for a path that has a publisher.
C7_PublishStartsIdlePlayers ==
  [][PublishMovesIdlePlayers]_vars /\ []NoIdleWaitsForPublished

\* ----------------------------------------------------------------- C8
\* C8: in every reachable state, a session on which stop() has been called (socket
\* close, socket error, idle timeout, explicit stop) is not a key of sessions, not
\* a value of publishers, not in idlePlayers and in no subscriber set.
C8_StoppedSessionIsGone ==
  \A s \in Created :
    stopCalls[s] >= 1 =>
      /\ s \notin sessions
      /\ PathsOf(s) = {}
      /\ s \notin IdleSet
      /\ PublishersOf(s) = {}

\* ----------------------------------------------------------------- C9
\* C9: a call of stop() on a session on which stop() was called before leaves
\* sessions, publishers, idlePlayers and every subscriber set unchanged, emits no
\* event and writes nothing to any socket.
C9_SecondStopChangesNothing ==
  [][\A s \in Ids :
       (stopCalls[s] >= 1 /\ Stops(s))
       => /\ sessions' = sessions
          /\ publishers' = publishers
          /\ idlePlayers' = idlePlayers
          /\ \A i \in Ids : sess'[i].players = sess[i].players
          /\ events' = << >>
          /\ out' = NoOutput]_vars

\* stop() ran twice on a session: the socket error tore the session down while
\* another session was publishing, and the close event that followed called stop()
\* again.
C9_Witness ==
  \E s \in Created :
    /\ stopCalls[s] = 2
    /\ sock[s] = "closed"
    /\ s \notin sessions
    /\ publishers # EmptyMap

\* ---------------------------------------------------------------- C10
\* Every socket the server has accepted has had its close event handled.
AllClosed == \A s \in Created : sock[s] = "closed"

\* C10: once the server's stop() has been called and every session socket's close
\* event has been handled, sessions, publishers and idlePlayers are empty and no
\* ping timer is running.
C10_ServerStopTearsDownEverySession ==
  (~listening /\ AllClosed) =>
    /\ sessions = {}
    /\ publishers = EmptyMap
    /\ idlePlayers = << >>
    /\ \A s \in Ids : pings[s] = 0

\* ---------------------------------------------------------------- C11
\* A timer of session s comes due: its ping interval writes a ping request, or its
\* postPublish timeout runs.
TimerFires(s) == PingFire(s) \/ PostPublishFire(s)

\* C11: after a session's stop() has run, none of that session's timers fires: no
\* ping request is written by its interval and no postPublish timeout runs for it.
C11_NoTimerFiresAfterStop ==
  [][\A s \in Ids : stopCalls[s] >= 1 => ~TimerFires(s)]_vars


\* ---------------------------------------------------------------- C12
\* The outbound chunk size the server was configured with.
ConfiguredChunkSize == IF config.chunk_size = 0 THEN 128 ELSE config.chunk_size

ConnectResponses ==
  << ControlMsg("WindowAckSize", << 5000000 >>),
     ControlMsg("SetPeerBandwidth", << 5000000, 2 >>),
     ControlMsg("SetChunkSize", << ConfiguredChunkSize >>),
     ResultMsg("NetConnection.Connect.Success") >>

\* What a connect command of session s does when the session is stopped once
\* preConnect has been emitted: no timer, no postConnect.
ConnectAborted(s) ==
  /\ Len(events') >= 1 /\ events'[1] = Event("preConnect", s, "")
  /\ \A i \in 1..Len(events') : events'[i].name # "postConnect"
  /\ pings'[s] <= pings[s]

\* None of the responses to connect is written, to any socket.
NoConnectResponse ==
  \A i \in Ids : \A k \in 1..Len(out'[i]) : out'[i][k].t \notin {"control", "_result"}

\* What a connect command of session s does otherwise.
ConnectAnswered(s) ==
  /\ events' = << Event("preConnect", s, ""), Event("postConnect", s, "") >>
  /\ out' = [NoOutput EXCEPT ![s] = ConnectResponses]
  /\ pings'[s] = pings[s] + 1
  /\ sess'[s].pingInterval

PassesPlayAuth(s, ok) == ~config.authPlay \/ sess[s].isLocal \/ ok

PlayResponses(sid) ==
  << StreamStatusMsg("StreamBegin", sid),
     StatusMsg(sid, "status", "NetStream.Play.Reset"),
     StatusMsg(sid, "status", "NetStream.Play.Start"),
     SampleAccessMsg >>

\* Session s is written the four responses to play, and after them media only.
PlayAnswered(s, sid) ==
  /\ Len(out'[s]) >= 4
  /\ SubSeq(out'[s], 1, 4) = PlayResponses(sid)
  /\ \A k \in 5..Len(out'[s]) : out'[s][k].t \in {"meta", "audio", "video"}

\* Session s is written the error status and none of the responses to play.
PlayRefused(s, sid) ==
  /\ Len(out'[s]) >= 1
  /\ out'[s][1] = StatusMsg(sid, "error", "NetStream.Play.BadConnection")
  /\ Codes(out'[s]) \cap {"StreamBegin", "NetStream.Play.Reset", "NetStream.Play.Start"} = {}

\* The step handles a play command of session s for name n: it starts with prePlay.
PlayStep(s, n) ==
  /\ handled' = handled + 1
  /\ Len(events') >= 1
  /\ events'[1] = Event("prePlay", s, StreamPath(sess[s].appname, n))

\* C14 as stated: every play command (of a running session that no listener stops)
\* on a session that is not playing is answered, in this order, with StreamBegin,
\* NetStream.Play.Reset, NetStream.Play.Start and |RtmpSampleAccess, all before any
\* media; on a session that is playing it is answered with the error status
\* NetStream.Play.BadConnection and none of StreamBegin, Play.Reset, Play.Start.
C14_AnyPlayIsAnswered ==
  [][\A s \in Ids, n \in Names, sid \in StreamIds, ok \in BOOLEAN :
       (sess[s].isStarting /\ PlayStep(s, n) /\ Play(s, n, sid, FALSE, ok)) =>
         IF sess[s].isPlaying THEN PlayRefused(s, sid) ELSE PlayAnswered(s, sid)]_vars

\* C14 amended: a play command of a running session that no prePlay listener stops
\* and that passes the authentication gate is answered, when the session is not
\* playing, with StreamBegin, NetStream.Play.Reset, NetStream.Play.Start and
\* |RtmpSampleAccess in this order, all before any replayed or live media; when the
\* session is already playing, with the error status NetStream.Play.BadConnection
\* first and with none of StreamBegin, Play.Reset, Play.Start.
C14_PlayResponses ==
  [][\A s \in Ids, n \in Names, sid \in StreamIds, ok \in BOOLEAN :
       (/\ sess[s].isStarting /\ PassesPlayAuth(s, ok)
        /\ PlayStep(s, n) /\ Play(s, n, sid, FALSE, ok)) =>
         IF sess[s].isPlaying THEN PlayRefused(s, sid) ELSE PlayAnswered(s, sid)]_vars

\* A play command was answered with the four responses and then replayed media.
C14_Witness ==
  \E s \in Ids :
    /\ Len(out[s]) > 4
    /\ SubSeq(out[s], 1, 4) = PlayResponses(sess[s].playStreamId)
    /\ out[s][5].t \in {"meta", "audio", "video"}
    /\ sess[s].isPlaying


\* ---------------------------------------------------------------- C13
\* The verifier is asked about a publish (a play) of session s: authentication is
\* enabled for it and the peer is not local.
AsksPublishVerifier(s) == config.authPublish /\ ~sess[s].isLocal
AsksPlayVerifier(s) == config.authPlay /\ ~sess[s].isLocal

\* Where session s stands as publisher and subscriber.
Standing(s) ==
  << {k \in DOMAIN publishers : publishers[k] = s}, s \in IdleSet, PublishersOf(s),
     sess[s].isPublishing, sess[s].isPlaying, sess[s].isIdling >>

\* The command of session s on message stream sid is refused as unauthorized: only
\* the error status is written, the registries and the session's flags are as they
\* were, the session stays in sessions with its socket open.
Unauthorized(s, sid, code) ==
  /\ out' = [NoOutput EXCEPT ![s] = << StatusMsg(sid, "error", code) >>]
  /\ publishers' = publishers
  /\ idlePlayers' = idlePlayers
  /\ \A i \in Ids : sess'[i].players = sess[i].players
  /\ Standing(s)' = Standing(s)
  /\ s \in sessions' /\ sock'[s] = "open"

RejectedIsOnlyToldUnauthorized ==
  \A s \in Ids, n \in Names, sid \in StreamIds :
    /\ (/\ AsksPublishVerifier(s) /\ sess[s].isStarting /\ s \in sessions
        /\ handled' = handled + 1
        /\ Publish(s, n, sid, FALSE, FALSE))
       => Unauthorized(s, sid, "NetStream.publish.Unauthorized")
    /\ (/\ AsksPlayVerifier(s) /\ sess[s].isStarting /\ s \in sessions
        /\ PlayStep(s, n)
        /\ Play(s, n, sid, FALSE, FALSE))
       => Unauthorized(s, sid, "NetStream.play.Unauthorized")

\* A session the play verifier is asked about subscribes (to the stream registered
\* under path k) only when the verifier accepted its play of k.
SubscribersWereVerified ==
  \A s \in Created : \A k \in DOMAIN publishers :
    (AsksPlayVerifier(s) /\ s \in PlayersOf(publishers[k])) => k \in verifiedPlay[s]

\* C13: with authentication enabled the verifier is asked exactly about the peers
\* that are not local; when it rejects a publish (a play), the session is sent only
\* the Unauthorized error status, is not registered in publishers (not added to
\* idlePlayers or to a subscriber set), its isPublishing, isPlaying and isIdling
\* flags are as before, and it stays in sessions with its socket open; and no
\* non-local session is a subscriber of a stream without the verifier having
\* accepted its play of that stream.
C13_AuthGate ==
  [][RejectedIsOnlyToldUnauthorized]_vars /\ []SubscribersWereVerified


\* ---------------------------------------------------------------- C15
\* The audio and video messages in a sequence of written messages.
AudioVideoOf(q) == SelectSeq(q, LAMBDA m : m.t \in {"audio", "video"})

\* Session record r is a subscriber that is paused: it plays or waits for its
\* stream, and its last pause command carried true.
PausedSubscriber(r) == r.isPause /\ (r.isPlaying \/ r.isIdling)

\* C15: from the moment a subscriber's pause(true) has been processed until its
\* pause(false) is processed, that is in every step that finds it a paused
\* subscriber and leaves it one, no audio or video message is written to its socket,
\* whatever the publisher sends and whatever is published or unpublished on its path.
C15_NoMediaWhilePaused ==
  [][\A s \in Ids :
       (PausedSubscriber(sess[s]) /\ PausedSubscriber(sess'[s]))
       => AudioVideoOf(out'[s]) = << >>]_vars


\* ---------------------------------------------------------------- C16
\* The code the status that answers a pause command has to carry.
PauseCode(pause) == IF pause THEN "NetStream.Pause.Notify" ELSE "NetStream.Unpause.Notify"

\* C16: every pause command is answered with an onStatus message on the play stream
\* whose info.code is NetStream.Pause.Notify when the pause flag is true and
\* NetStream.Unpause.Notify when it is false.
C16_PauseStatusCode ==
  [][\A s \in Ids, pause \in BOOLEAN :
       Pause(s, pause) =>
         \E k \in 1..Len(out'[s]) :
           /\ out'[s][k].t = "onStatus"
           /\ out'[s][k].sid = sess[s].playStreamId
           /\ out'[s][k].code = PauseCode(pause)]_vars


\* ---------------------------------------------------------------- C17
\* What holds after a deleteStream or closeStream of session s that named its play
\* stream, on message stream sid.
PlayStreamDeleted(s, sid) ==
  /\ s \notin Range(idlePlayers')
  /\ \A i \in Ids : s \notin Range(sess'[i].players)
  /\ ~sess'[s].isPlaying /\ ~sess'[s].isIdling
  /\ \E k \in 1..Len(events') : events'[k].name = "donePlay" /\ events'[k].id = s
  /\ StatusMsg(sid, "status", "NetStream.Play.Stop") \in Range(out'[s])

\* C17: when deleteStream or closeStream names the play stream id of a session
\* that is playing or idling, then afterwards the session id is in neither
\* idlePlayers nor any publisher's subscriber set, isPlaying and isIdling are
\* false, a donePlay event has been emitted for it and NetStream.Play.Stop has been
\* sent to it.
C17_DeletePlayStream ==
  [][\A s \in Ids, sid \in StreamIds :
       (/\ sess[s].isPlaying \/ sess[s].isIdling
        /\ sid = sess[s].playStreamId
        /\ DeleteStream(s, sid) \/ CloseStream(s, sid))
       => PlayStreamDeleted(s, sid)]_vars


\* ---------------------------------------------------------------- C18
\* Frame f is a sequence header: an AAC audio message or an AVC key frame whose
\* byte 1 is 0.
IsSequenceHeader(f) ==
  \/ f.k = "audio" /\ f.codec = 10 /\ f.b1 = 0
  \/ f.k = "video" /\ f.codec \in {7, 12} /\ f.ft = 1 /\ f.b1 = 0

\* C18: in every reachable state the GOP cache of a publisher contains no sequence
\* header: no AAC sequence-header audio message and no AVC key frame with byte 1
\* equal to 0 is a member of rtmpGopCacheQueue.
C18_NoSequenceHeaderInGopCache ==
  \A i \in Created :
    sess[i].isPublishing =>
      \A k \in 1..Len(sess[i].rtmpGopCacheQueue) :
        ~IsSequenceHeader(sess[i].rtmpGopCacheQueue[k])


\* ---------------------------------------------------------------- C19
\* The frames of the audio and video messages in a sequence of written messages.
RECURSIVE FramesOf(_)
FramesOf(q) ==
  IF q = << >> THEN << >>
  ELSE IF Head(q).t \in {"audio", "video"} THEN << Head(q).f >> \o FramesOf(Tail(q))
  ELSE FramesOf(Tail(q))

\* Session s is a subscriber of p that is eligible for frame f: starting, playing,
\* not paused, and its gate for the kind of f is open.
Eligible(s, p, f) ==
  /\ s \in PlayersOf(p)
  /\ sess[s].isStarting /\ sess[s].isPlaying /\ ~sess[s].isPause
  /\ IF f.k = "audio" THEN sess[s].isReceiveAudio ELSE sess[s].isReceiveVideo

\* Session p receives the audio or video frame f.
MediaStep(p, f) ==
  \/ f \in AudioFrames /\ Audio(p, f)
  \/ f \in VideoFrames /\ Video(p, f)

ChunksRead == codec.sent /\ (codec.thrown \/ codec.offset >= Len(codec.data))

\* The message the packet that was chunked stands for.
MessageOf(packet) ==
  [ cid |-> packet.header.cid, type |-> packet.header.type,
    length |-> packet.header.length, stream_id |-> packet.header.stream_id,
    timestamp |-> packet.header.timestamp, payload |-> packet.payload ]

\* C20: for every packet header (fmt 0, any cid, timestamp below or at or above
\* 0xFFFFFF), every payload of length L >= 0 and every chunk size C >= 1, the bytes
\* rtmpChunksCreate produces, fed to the chunk parser with inChunkSize = C, dispatch
\* exactly one message, whose cid, type, length, stream id and timestamp are those of
\* the header and whose payload is the payload.
C20_ChunkRoundTrip ==
  ChunksRead => codec.dispatched = << MessageOf(codec.packet) >>


\* ---------------------------------------------------------------- C21
\* C21: on every chunk stream id the clocks of the dispatched messages never go down,
\* whatever header formats and timestamps the peer sends.
C21_ClockMonotonic ==
  \A i, j \in 1..Len(codec.dispatched) :
    (i < j /\ codec.dispatched[i].cid = codec.dispatched[j].cid)
      => codec.dispatched[i].timestamp <= codec.dispatched[j].timestamp


\* ---------------------------------------------------------------- C27
\* The parser has read the whole header of a chunk that starts a message.
MessageStarts ==
  /\ codec.parserState = "EXTENDED_TIMESTAMP"
  /\ codec'.parserState = "PAYLOAD"
  /\ ParserPacket(codec).bytes = 0

\* The parser has read the last payload byte of a message.
MessageCompletes == Len(codec'.dispatched) = Len(codec.dispatched) + 1

\* The timestamp (fmt 0) or timestamp delta (fmt 1, 2) the chunk carries; on a fmt 3
\* chunk, the field last sent on the chunk stream.
SentTimestamp == codec.packet.header.timestamp

\* What the claim says of formats 0, 1 and 2 and of the end of a message.
ClockOfFormats012 ==
  LET old == ParserPacket(codec)
      new == codec'.inPackets[codec.cid]
      fmt == codec.packet.header.fmt
  IN /\ (MessageStarts /\ fmt = 0) => (new.clock = SentTimestamp /\ new.delta = 0)
     /\ (MessageStarts /\ fmt \in {1, 2})
          => (new.delta = SentTimestamp /\ new.clock = old.clock)
     /\ MessageCompletes
          => /\ new.clock = old.clock + old.delta
             /\ codec'.dispatched[Len(codec'.dispatched)].timestamp = new.clock

\* C27 as stated: fmt 0 sets the clock to the received timestamp and the delta to 0;
\* fmt 1 and 2 set the delta to the received delta; the clock advances by the delta
\* when the message completes; a message that starts with fmt 3 keeps the delta of
\* the previous message on the chunk stream.
C27_Fmt3ReusesPreviousDelta ==
  [][ /\ ClockOfFormats012
      /\ (MessageStarts /\ codec.packet.header.fmt = 3)
           => codec'.inPackets[codec.cid].delta = ParserPacket(codec).delta ]_vars

\* C27 amended: as above, but a message that starts with fmt 3 takes as delta the
\* timestamp field last received on the chunk stream: the delta of a preceding
\* fmt 1 or 2 header, the absolute timestamp of a preceding fmt 0 header.
C27_Fmt3ReusesTimestampField ==
  [][ /\ ClockOfFormats012
      /\ (MessageStarts /\ codec.packet.header.fmt = 3)
           => /\ codec'.inPackets[codec.cid].delta = SentTimestamp
              /\ codec'.inPackets[codec.cid].clock = ParserPacket(codec).clock ]_vars

\* A fmt 0 message with timestamp 1 and then a fmt 3 message on chunk stream 3 have
\* been dispatched: the second has clock 2.
C27_Witness ==
  /\ codec.sentCount = 2
  /\ codec.packet.header.fmt = 3
  /\ Len(codec.dispatched) = 2
  /\ codec.dispatched[1].cid = 3 /\ codec.dispatched[1].stream_id = 1
  /\ codec.dispatched[1].timestamp = 1
  /\ codec.dispatched[2].cid = 3
  /\ codec.dispatched[2].timestamp = 2
  /\ codec.inPackets[3].delta = 1


\* ---------------------------------------------------------------- C28
\* The parser has read the basic and message header of the chunk the peer sent last.
HeaderParsed == codec.parserState \in {"EXTENDED_TIMESTAMP", "PAYLOAD"}

\* C28: for a chunk on a chunk stream id in 320..65599, whose basic header is the
\* three bytes rtmpChunkBasicHeaderCreate(fmt, cid), the parser computes
\* cid = 64 + b1 + (b2 << 8) and so finds the fmt and the cid the header was made of.
C28_ThreeByteCid ==
  (HeaderParsed /\ codec.packet.header.cid \in 320..65599)
    => /\ codec.cid = 64 + codec.parserBuffer[2] + codec.parserBuffer[3] * 256
       /\ codec.cid = codec.packet.header.cid
       /\ ParserPacket(codec).header.fmt = codec.packet.header.fmt


\* ---------------------------------------------------------------- C29
\* The bytes of C0 and C1, and of C0, C1 and C2.
C0C1Length == 1 + RTMP_HANDSHAKE_SIZE
HandshakeLength == 1 + 2 * RTMP_HANDSHAKE_SIZE

\* C29: however the incoming bytes are split into data events, S0S1S2 has been written
\* once when the 1537th byte has been received and not at all before; the chunk
\* reader has been handed no byte while C2 is incomplete, and every byte after C2.
C29_HandshakeSequencing ==
  /\ codec.s0s1s2 = (IF WideGE(codec.received, Wide(C0C1Length)) THEN 1 ELSE 0)
  /\ codec.parsed = (IF WideGE(codec.received, Wide(HandshakeLength))
                     THEN WideSub(codec.received, Wide(HandshakeLength))
                     ELSE Wide(0))

\* C1 ended inside one data event and C2 inside a later one that also carried chunk
\* bytes.
C29_Witness ==
  /\ codec.dataEvents = 3
  /\ codec.received = Wide(1535 + 1537 + 1537)
  /\ codec.s0s1s2 = 1
  /\ codec.handshakeState = "2"
  /\ codec.parsed = Wide(1536)


\* ---------------------------------------------------------------- C30
\* The received-byte total: the bytes of the chunk stream, received after the
\* handshake. The position of the last Acknowledgement is the total it was sent at.
ReceivedTotal(c) == c.parsed
LastAcknowledged(c) ==
  IF c.acks = << >> THEN Wide(0) ELSE c.acks[Len(c.acks)].parsed
AckSent == Len(codec'.acks) = Len(codec.acks) + 1

\* C30: with ackSize > 0, a data event sends an Acknowledgement exactly when with its
\* bytes the received total has come to ackSize or more past the last acknowledged
\* position, the Acknowledgement carries the received total, and after every data
\* event the total is less than ackSize past the last acknowledged position.
C30_AckWindow ==
  [][ codec'.ackSize > 0
        => /\ AckSent <=> WideGE(WideSub(ReceivedTotal(codec'), LastAcknowledged(codec)),
                                 Wide(codec'.ackSize))
           /\ AckSent => codec'.acks[Len(codec'.acks)].size = ReceivedTotal(codec')
           /\ ~WideGE(WideSub(ReceivedTotal(codec'), LastAcknowledged(codec')),
                      Wide(codec'.ackSize)) ]_vars


\* ---------------------------------------------------------------- C22
\* The value, or the command, has been encoded and the bytes decoded again.
AmfRoundTripDone == codec.stage = "decoded"

\* C22: decoding the bytes an AMF0 encoder produced gives back the value that was
\* encoded (Number, Boolean, String, Null, Undefined, ECMA Array, Strict Array, Date,
\* Long String, Object with its keys in order), and decodeAMF0Cmd gives back the
\* command encodeAMF0Cmd was given, whichever fields of its schema it carries.
C22_AmfRoundTrip ==
  AmfRoundTripDone
    => /\ ~codec.output.thrown
       /\ IF codec.how = "cmd"
          THEN /\ codec.output.cmd = codec.input.cmd
               /\ codec.output.fields = codec.input.fields
          ELSE codec.output.value = codec.input


\* ---------------------------------------------------------------- C23
\* Session p publishes and holds a GOP cache (rtmpGopCacheQueue is not null).
HasGopCache(p) == sess[p].isPublishing /\ ~sess[p].gopCacheNull

\* Frame f is a new IDR: an H.264/H.265 key frame whose byte 1 is 1.
IsIdr(f) == f.k = "video" /\ f.codec \in {7, 12} /\ f.ft = 1 /\ f.b1 = 1

\* The IDR key frames of a GOP cache are at most one, the first frame of the cache.
AtMostOneIdr(queue) == \A k \in 2..Len(queue) : ~IsIdr(queue[k])

C24_EverySequenceHeaderStored ==
  [][\A p \in Ids, f \in VideoFrames :
       (/\ handled' = handled + 1 /\ events' = << >>
        /\ sess[p].isPublishing
        /\ f.codec \in {7, 12} /\ IsSequenceHeader(f)
        /\ Video(p, f)) =>
         /\ sess'[p].avcSequenceHeader = f
         /\ config.gop_cache =>
              ~sess'[p].gopCacheNull /\ sess'[p].rtmpGopCacheQueue = << >>]_vars


\* ---------------------------------------------------------------- C25
\* C25: every audio, video or metadata message a subscriber's socket has
\* transmitted carries the subscriber's own playStreamId as message stream id,
\* also when subscribers with different play stream ids are served from one chunk
\* buffer and a socket transmits the buffer later than the write call.
C25_OwnStreamIdOnTheWire ==
  \A k \in Subscribers :
    \A i \in 1..Len(codec.wire[k]) :
      codec.wire[k][i].stream_id = codec.playStreamId[k]


\* ---------------------------------------------------------------- C26
\* C26: in every reachable state every session id that is a value of publishers, a
\* member of idlePlayers or a member of a session's subscriber set is a key of
\* sessions: no registry refers to a destroyed session.
C26_RegistriesReferToSessions ==
  /\ \A path \in DOMAIN publishers : publishers[path] \in sessions
  /\ IdleSet \subseteq sessions
  /\ \A i \in Created : i \in sessions => PlayersOf(i) \subseteq sessions


\* ---------------------------------------------------------------- C31
\* C31: after every data event 0 <= inLastAck <= inAckSize < 0xF0000000, and every
\* Acknowledgement that was written carries a value below 0xF0000000, which fits
\* in 32 bits.
C31_AckCountersBounded ==
  /\ WideGE(codec.inLastAck, Wide(0))
  /\ WideGE(codec.inAckSize, codec.inLastAck)
  /\ ~WideGE(codec.inAckSize, InAckSizeLimit)
  /\ \A i \in 1..Len(codec.acks) :
       /\ WideGE(codec.acks[i].size, Wide(0))
       /\ ~WideGE(codec.acks[i].size, InAckSizeLimit)

\* The chunk reader was handed 0xF0000000 bytes or more and the counters were
\* reset to 0.
C31_Witness ==
  /\ WideGE(codec.parsed, InAckSizeLimit)
  /\ codec.inAckSize = Wide(0)
  /\ codec.inLastAck = Wide(0)


\* ---------------------------------------------------------------- C32
\* Session s receives a command that has no handler or a data message that is not
\* @setDataFrame.
UnhandledStep(s) ==
  \/ \E cmd \in UnhandledCommands : Invoke(s, cmd)
  \/ Data(s, "onTextData")

C33_UnknownMarkerIgnored ==
  \A i \in 1..Len(codec.received) :
    HasUnknownMarker(codec.received[i].payload) => ~codec.received[i].thrown


\* ---------------------------------------------------------------- C34
\* The stream has been received whole by one reader and in segments by the other.
BothReceived == codec.wholeDone /\ codec.pos = Len(codec.stream)

MaxTurnEvents == 3

\* A set chunk size message for size n, in chunks of the size in force.
SetChunkSizeBytes(n, chunkSize) ==
  rtmpChunksCreate([RtmpPacketCreate(0, 2) EXCEPT
                      !.header.length = 4, !.header.type = 1,
                      !.payload = << 0, 0, 0, n >>], chunkSize).chunks
EmptyControlBytes(cid) == ChunkBytes(0, cid, 0, 0, 1, << >>)
AudioStartBytes(len, k) == ChunkBytes(0, 3, 1, len, 8, PayloadOf(k))
ContinueBytes(k) == ChunkBytes(3, 3, 0, 0, 0, PayloadOf(k))

\* The payload bytes the parser takes after a format 3 header on chunk stream 3.
ContinueLength(c) ==
  IF 3 \notin DOMAIN c.inPackets THEN 0
  ELSE LET pkt == c.inPackets[3]
       IN Min(c.chunkSize - (pkt.bytes % c.chunkSize), pkt.header.length - pkt.bytes)

\* What the peer may send next, and its bytes for the parser's chunk size in force.
PeerChunks ==
  {<<"setChunkSize", 1>>, <<"setChunkSize", 2>>, <<"emptyControl", 2>>,
   <<"emptyControl", 4>>, <<"audio", 0>>, <<"audio", 3>>, <<"continue", 3>>,
   <<"emptyControlThenAudio", 2>>, <<"emptyControlThenAudio", 4>>}

PeerChunkBytes(c, chunk) ==
  CASE chunk[1] = "setChunkSize" -> SetChunkSizeBytes(chunk[2], c.chunkSize)
    [] chunk[1] = "emptyControl" -> EmptyControlBytes(chunk[2])
    [] chunk[1] = "audio" -> AudioStartBytes(chunk[2], Min(chunk[2], c.chunkSize))
    [] chunk[1] = "continue" -> ContinueBytes(ContinueLength(c))
    [] OTHER -> EmptyControlBytes(chunk[2]) \o AudioStartBytes(3, Min(3, c.chunkSize))

\* Where a chunk is cut into two data events; past its end, it is not cut.
MaxChunkBytes == 28
ChunkCuts == {1, 5, 12, 13, MaxChunkBytes}

NewTurns ==
  [NewParser(RtmpPacketCreate(0, 0), RTMP_CHUNK_SIZE) EXCEPT !.sent = TRUE]
    @@ [received |-> 0, rest |-> << >>]

\* The call of rtmpChunkRead has ended: by leaving the loop or by an exception.
ChunkReadEnded(c) == c.thrown \/ c.offset >= Len(c.data)

\* rtmpChunkRead(data, 0, data.length) is entered with the first cut bytes of a
\* chunk the peer sends: the call before it has returned.
ChunkData(chunk, cut) ==
  /\ UNCHANGED ServerVars
  /\ ~codec.thrown
  /\ ChunkReadEnded(codec)
  /\ codec.rest = << >>
  /\ codec.received < MaxTurnEvents
  /\ LET bytes == PeerChunkBytes(codec, chunk)
         n == Min(cut, Len(bytes))
     IN codec' = [codec EXCEPT !.data = SubSeq(bytes, 1, n), !.offset = 0,
                               !.rest = SubSeq(bytes, n + 1, Len(bytes)),
                               !.received = @ + 1, !.dispatched = << >>]

\* rtmpChunkRead is entered with the remaining bytes of the chunk.
ChunkRest ==
  /\ UNCHANGED ServerVars
  /\ ~codec.thrown
  /\ ChunkReadEnded(codec)
  /\ codec.rest # << >>
  /\ codec' = [codec EXCEPT !.data = codec.rest, !.offset = 0, !.rest = << >>,
                            !.dispatched = << >>]

InitTurns ==
  /\ config = DefaultConfig
  /\ budget = 0
  /\ Started
  /\ codec = NewTurns

NextTurns ==
  \/ \E chunk \in PeerChunks, cut \in ChunkCuts : ChunkData(chunk, cut)
  \/ ChunkRest
  \/ ParseInit
  \/ ParseBasicHeader
  \/ ParseMessageHeader
  \/ ParseExtendedTimestamp
  \/ ParsePayload

SpecTurns == InitTurns /\ [][NextTurns]_vars

\* C35: with inChunkSize >= 1, every call of rtmpChunkRead that has ended has
\* consumed all the bytes it was given, zero-length messages included.
C35_ChunkReadConsumesAll ==
  (codec.chunkSize >= 1 /\ ChunkReadEnded(codec))
    => ~codec.thrown /\ codec.offset = Len(codec.data)


\* C36: a publisher whose audioCodec is 10 holds an AAC sequence header, and one
\* whose videoCodec is 7 or 12 holds an AVC sequence header, whatever frames came first.
C36_CodecHasSequenceHeader ==
  \A p \in sessions :
    sess[p].isPublishing =>
      /\ sess[p].audioCodec = 10 => sess[p].aacSequenceHeader # NoFrame
      /\ sess[p].videoCodec \in {7, 12} => sess[p].avcSequenceHeader # NoFrame


\* ---------------------------------------------------------------- C37
\* Stream id sid is an active play stream or an active publish stream of session s.
ActiveStream(s, sid) ==
  \/ (sess[s].isPlaying \/ sess[s].isIdling) /\ sid = sess[s].playStreamId
  \/ sess[s].isPublishing /\ sid = sess[s].publishStreamId

SessionFlags(r) ==
  << r.isStarting, r.isPlaying, r.isIdling, r.isPublishing, r.isPause,
     r.isReceiveAudio, r.isReceiveVideo >>

\* C37: a deleteStream or closeStream of a stream id that is neither an active play
\* stream nor an active publish stream of the session (stream id 0 on a session
\* that never played or published included) changes no registry and no session
\* flag, emits no event, writes nothing and raises no exception.
C37_InactiveStreamIdChangesNothing ==
  [][\A s \in Ids, sid \in StreamIds :
       (~ActiveStream(s, sid) /\ (DeleteStream(s, sid) \/ CloseStream(s, sid)))
       => /\ ~thrown'
          /\ sessions' = sessions /\ publishers' = publishers /\ idlePlayers' = idlePlayers
          /\ \A i \in Ids : SessionFlags(sess'[i]) = SessionFlags(sess[i])
          /\ \A i \in Ids : sess'[i].players = sess[i].players
          /\ events' = << >>
          /\ \A i \in Ids : out'[i] = << >>]_vars


\* ---------------------------------------------------------- lifecycle
\* One stream name and message stream 1, with a listener on the play events:
\* publishers that unpublish and publish again, subscribers that stop playing,
\* sockets that close.
MaxLifecycleEvents == 6

InitLifecycle ==
  /\ config = DefaultConfig
  /\ budget = MaxLifecycleEvents
  /\ Started
  /\ codec = NewListener

NextLifecycle ==
  \/ Accept(FALSE)
  \/ \E s \in Ids : Publish(s, "a", 1, FALSE, TRUE)
  \/ \E s \in Ids : Play(s, "a", 1, FALSE, TRUE)
  \/ \E s \in Ids : DeleteStream(s, 1)
  \/ \E s \in Ids : CloseStream(s, 1)
  \/ \E s \in Ids : OnSocketClose(s)

SpecLifecycle == InitLifecycle /\ [][NextLifecycle]_vars

\* C38: every postPlay of a session is followed by a donePlay of it no later than
\* its doneConnect, and no donePlay is emitted for a session without a postPlay
\* that is still unmatched.
C38_PlayEventsPaired == ~codec.orphan /\ ~codec.unclosed


\* ---------------------------------------------------------------- C39
\* Session s holds metadata or a sequence header.
HoldsHeaders(r) ==
  r.metaData # NoFrame \/ r.aacSequenceHeader # NoFrame \/ r.avcSequenceHeader # NoFrame

\* The step before this one was the unpublish of session s.
JustUnpublished(s) ==
  \E k \in 1..Len(events) : events[k].name = "donePublish" /\ events[k].id = s

\* C39: what a publisher replays to a joining subscriber belongs to its current
\* publication: when a session that has unpublished publishes again, it holds no
\* metadata and no sequence header of the earlier publication, and the first
\* sequence headers it then receives are stored.
C39_PublicationStartsWithoutHeaders ==
  [][\A s \in Ids, p \in Paths :
       (JustUnpublished(s) /\ PublishSucceeds(s, p))
       => ~HoldsHeaders(sess'[s])
          /\ ~sess'[s].isFirstAudioReceived /\ ~sess'[s].isFirstVideoReceived]_vars


\* -------------------------------------------------------------- clocks
\* The clock the parser keeps per chunk stream, over the timestamps and deltas of
\* the messages a peer sends, and the timestamp the audio and video handlers put
\* into the chunks they build from it. Timestamps are numbers of the language, which
\* do not wrap at 32 bits: they are kept as pairs of 16-bit halves.
MaxClockMessages == 3
ClockCids == {4, 6}
UInt32Max == [hi |-> 65535, lo |-> 65535]
TimestampFields == {0, 1, 16777215}
ExtendedTimestamps == {Wide(16777215), [hi |-> 32768, lo |-> 0], UInt32Max}

NewClocks ==
  [ sent |-> FALSE, thrown |-> FALSE, messages |-> 0,
    inPackets |-> [cid \in ClockCids |->
                     [timestamp |-> 0, clock |-> Wide(0), delta |-> Wide(0)]],
    written |-> << >> ]

\* RTMP_PARSE_EXTENDED_TIMESTAMP at the first chunk of a message: the header of
\* format fmt carries the timestamp field (format 3 keeps the field of the header
\* before), and the extended timestamp stands for a field of 0xFFFFFF.
ParseTimestamp(pkt, fmt, field, extended_timestamp) ==
  LET timestamp == IF fmt <= 2 THEN field ELSE pkt.timestamp
      stamp == IF timestamp = 16777215 THEN extended_timestamp ELSE Wide(timestamp)
  IN IF fmt = 0
     THEN [pkt EXCEPT !.timestamp = timestamp, !.clock = stamp, !.delta = Wide(0)]
     ELSE [pkt EXCEPT !.timestamp = timestamp, !.delta = stamp]

\* this.parserPacket.clock += this.parserPacket.delta when the message is complete.
AdvanceClock(pkt) == [pkt EXCEPT !.clock = WideAdd(@, pkt.delta)]

\* packet.header.timestamp = this.parserPacket.clock; rtmpChunksCreate(packet): a
\* timestamp of 0xFFFFFF or more is written with chunks.writeUInt32BE, a RangeError
\* when it is above 0xFFFFFFFF.
WriteTimestamp(c, clock) ==
  IF WideGE(clock, Wide(16777215)) /\ ~WideGE(UInt32Max, clock)
  THEN [c EXCEPT !.thrown = TRUE]
  ELSE [c EXCEPT !.written = << clock >>]

\* One audio or video message on chunk stream cid is parsed and handled.
ClockMessage(cid, fmt, field, extended_timestamp) ==
  /\ UNCHANGED ServerVars
  /\ ~codec.thrown
  /\ codec.messages < MaxClockMessages
  /\ LET pkt == AdvanceClock(ParseTimestamp(codec.inPackets[cid], fmt, field,
                                            extended_timestamp))
     IN codec' = WriteTimestamp([codec EXCEPT !.inPackets[cid] = pkt,
                                              !.messages = @ + 1],
                                pkt.clock)

InitClocks ==
  /\ config = DefaultConfig
  /\ budget = 0
  /\ Started
  /\ codec = NewClocks

NextClocks ==
  \E cid \in ClockCids, fmt \in 0..3, field \in TimestampFields,
     extended_timestamp \in ExtendedTimestamps :
    ClockMessage(cid, fmt, field, extended_timestamp)

SpecClocks == InitClocks /\ [][NextClocks]_vars

\* C40: the parser clock of every chunk stream stays within 0 .. 2^32 - 1, so the
\* timestamp the audio and video handlers write into outgoing chunk headers fits
\* in 32 bits.
C40_ClockWithin32Bits ==
  /\ ~codec.thrown
  /\ \A cid \in ClockCids :
       /\ WideGE(codec.inPackets[cid].clock, Wide(0))
       /\ WideGE(UInt32Max, codec.inPackets[cid].clock)


============================================================================
